---- MODULE Spec2Model ----
(***************************************************************************)
(* Model of the cockpit demo engine (apps/terminal/src/lib/simEngine.ts)   *)
(* and of the control route that pokes it (app/api/control/route.ts).      *)
(*                                                                         *)
(* Numbers.  Scores, confidences, ceilings and weights are fractions in    *)
(* the source; here they are integers in thousandths (0.18 is 180, the     *)
(* ceiling 1.10 is 1100).  Times are milliseconds, as Date.now() gives.    *)
(* A quotient of two such numbers is taken with \div, i.e. rounded down    *)
(* to the thousandth.  Comparisons of averages are cross-multiplied so     *)
(* that no rounding enters a threshold test; the stress-source rule is     *)
(* evaluated in binary64 where its outcome depends on rounding.  The score *)
(* and confidence of a pillar are counted in ten-thousandths: the drift    *)
(* loop adds                                                               *)
(* (Math.random() - 0.5) * 0.01 to each, a whole number of                 *)
(* ten-thousandths for an outcome on the grid of hundredths the model      *)
(* draws from.                                                             *)
(*                                                                         *)
(* Values.  A field that holds a string, null or undefined holds a tagged  *)
(* value (JsStr, Null, Undefined), so that the strings 'null' and          *)
(* 'undefined', which the control route lets through as scenario ids, are  *)
(* not the values null and undefined.                                      *)
(*                                                                         *)
(* Time.  The source reads Date.now() anew at every use.  The reads of the *)
(* constructor are the three arguments of NewEngine; the reads of one tick *)
(* are a record (Reads): snapshot.ts, the scenario age, forcePhase, the    *)
(* phase age, the REENTRY ladder, and the phase's exit.  The interval      *)
(* fires every TickStep ms.  A control request is two steps, because the   *)
(* route awaits the body after it has called start(): Accept, then (ticks  *)
(* may run in between) Control.                                            *)
(*                                                                         *)
(* Display-only text (valueText, headline, alert detail and tags, the      *)
(* pillar name/type, updatedAt) is not part of the model.                  *)
(***************************************************************************)
EXTENDS Integers, Sequences, FiniteSets, TLC

VARIABLES
    engine,   \* the Engine singleton: its private fields and its snapshot
    now,      \* Date.now(), in ms
    req,      \* the body of the control request served by the last step
    resp,     \* the response of the control request served by the last step
    clk,      \* the Date.now() reads of the last tick
    waiting,  \* POST handlers suspended at await req.json()
    rnd,      \* how many times so far the environment left its default: a tick
              \* that drew a Math.random() outcome other than 0.5, or a call
              \* during which the clock advanced between two reads
    ops,      \* the instants at which control operations were served so far
    last,     \* the operation that produced the current state
    fin,      \* pure-function harness: the input; readers: the tick in progress
    fout      \* pure-function harness: the result; readers: the snapshot read

vars == <<engine, now, clk, waiting, req, resp, rnd, ops, last, fin, fout>>

-----------------------------------------------------------------------------
(* Bounds of the model *)

\* the clock stops advancing here (ms)
MaxTime == 140000
\* the same for the specification that takes the tick apart (SpecReaders)
ReadersMaxTime == 33000
\* ticks that may draw a non-default random outcome or see the clock advance
MaxRandom == 1
\* control operations served in one behaviour
MaxOps == 2
\* POST handlers that may wait for their body at one time
MaxWaiting == 1
\* ticks a run is followed after the last input instant once its input budget
\* is spent
HorizonTicks == 75
\* Date.now() when the construction of the engine ends (any positive instant)
StartTime == 1000
\* setInterval(() => this.tick(), 400): time between two ticks (ms)
TickStep == 400

-----------------------------------------------------------------------------
(* Enumerations (types.ts, simEngine.ts:18-27) *)

Phases == <<"CALM", "BUILD_STRESS", "CIRCUIT_BREAK", "DELEVERAGE", "STABILIZE", "ARES_GATES", "REENTRY">>
PhaseSet == {Phases[i] : i \in 1..Len(Phases)}
ScenarioIds == {"S1", "S2", "S3"}
Regimes == {"RISK_ON", "NEUTRAL", "DEFENSIVE", "CRASH"}
StressSources == {"CRYPTO", "EQUITY", "GENERAL", "CORRELATED"}
PillarIds == {"ARAS", "MACRO", "MASTER", "KEVLAR", "PERM", "SLOF", "ARES"}
SignalKeys == <<"macroSignals", "masterSignals", "kevlarSignals", "permSignals", "slofSignals">>

\* JS values with their typeof tag: null and undefined are values of their
\* own, distinct from every string (from the strings 'null' and 'undefined'
\* too)
JsStr(v) == [type |-> "string", val |-> v]
JsNum(v) == [type |-> "number", val |-> v]
Null == [type |-> "null", val |-> ""]
Undefined == [type |-> "undefined", val |-> ""]

-----------------------------------------------------------------------------
(* Program constants *)

SPEC_EQCR_CEILINGS(regime) ==
    CASE regime = "RISK_ON" -> 1000
      [] regime = "NEUTRAL" -> 700
      [] regime = "DEFENSIVE" -> 400
      [] regime = "CRASH" -> 150

SPEC_CEILINGS(regime) ==
    CASE regime = "RISK_ON" -> 1100
      [] regime = "NEUTRAL" -> 700
      [] regime = "DEFENSIVE" -> 400
      [] regime = "CRASH" -> 150

SPEC_SLOF_MAX_BY_REGIME(regime) ==
    CASE regime = "RISK_ON" -> 200
      [] regime = "NEUTRAL" -> 100
      [] regime = "DEFENSIVE" -> 0
      [] regime = "CRASH" -> 0

\* target sleeve weights, in thousandths of NAV
ARCH_AB_TARGET_SLEEVES == [equity |-> 580, crypto |-> 200, defense |-> 140, cashOptions |-> 80]

\* an instrument's target; tranche 0 is an instrument without a tranche tag
T(ticker, pct, tranche) == [ticker |-> ticker, pct |-> pct, tranche |-> tranche]

TARGET_EQUITY ==
    <<T("TSLA", 88, 1), T("NVDA", 88, 1), T("AMD", 72, 2), T("MU", 57, 2), T("PLTR", 57, 2),
      T("ALAB", 57, 2), T("MRVL", 43, 3), T("ANET", 43, 3), T("AVGO", 43, 3), T("ARM", 32, 3)>>

TARGET_CRYPTO == <<T("IBIT", 160, 1), T("BSOL", 40, 3)>>

TARGET_DEFENSE == <<T("TLT", 70, 0), T("SGOL", 40, 0), T("DBMF", 30, 0)>>

SPEC_SOURCE_TARGETED_CUTS(stressSource) ==
    CASE stressSource = "CRYPTO" -> [cryptoCut |-> 800, equityCut |-> 400, defenseCut |-> 0]
      [] stressSource = "EQUITY" -> [cryptoCut |-> 300, equityCut |-> 800, defenseCut |-> 0]
      [] stressSource = "GENERAL" -> [cryptoCut |-> 700, equityCut |-> 700, defenseCut |-> 0]
      [] stressSource = "CORRELATED" -> [cryptoCut |-> 800, equityCut |-> 700, defenseCut |-> 0]

\* pushAlert keeps the newest AlertCap entries
AlertCap == 200
\* updateARASModules: risk threshold 0.65, crash override at 3 flags to 0.15
RiskThreshold == 650
CrashFlagCount == 3
CrashCeiling == 150

-----------------------------------------------------------------------------
(* Small helpers *)

Min(a, b) == IF a <= b THEN a ELSE b
Max(a, b) == IF a >= b THEN a ELSE b
Abs(a) == IF a >= 0 THEN a ELSE -a

Take(s, n) == SubSeq(s, 1, Min(n, Len(s)))

\* a clamp01 that lets every number through
clamp01Identity(x) == x

clamp01(x) == Max(0, Min(1000, x))

\* Pillar score and confidence are counted in ten-thousandths, the unit in
\* which the drift of a tick is a whole number; Fine converts thousandths
Fine(x) == 10 * x

\* clamp01 of a number counted in ten-thousandths
clamp01Fine(x) == Max(0, Min(Fine(1000), x))

clampCeiling(x) == Max(0, Min(1200, x))

levelFromScore(score) ==
    IF score >= 700 THEN "RISK"
    ELSE IF score >= 450 THEN "WATCH"
    ELSE "OK"

-----------------------------------------------------------------------------
(* Phase tables: the literals of the seven phase handlers of Engine.tick *)

(* The 6-element module patch every phase handler passes to updateARASModules *)
M(r, f, c) == [risk_score |-> r, stress_flag |-> f, confidence |-> c]

\* a signal literal of a phase handler: none of them gives a level
S(n, s, c) == [name |-> n, score |-> s, confidence |-> c]

ModulePatch(phase) ==
    CASE phase = "CALM" ->
        <<M(180, FALSE, 880), M(160, FALSE, 860), M(140, FALSE, 840), M(150, FALSE, 830), M(170, FALSE, 820), M(80, FALSE, 800)>>
      [] phase = "BUILD_STRESS" ->
        <<M(460, FALSE, 860), M(560, TRUE, 830), M(540, TRUE, 780), M(510, TRUE, 770), M(490, FALSE, 790), M(530, TRUE, 760)>>
      [] phase = "CIRCUIT_BREAK" ->
        <<M(720, TRUE, 780), M(790, TRUE, 740), M(820, TRUE, 700), M(760, TRUE, 690), M(740, TRUE, 710), M(680, TRUE, 680)>>
      [] phase = "DELEVERAGE" ->
        <<M(580, TRUE, 800), M(620, TRUE, 770), M(600, TRUE, 740), M(570, TRUE, 730), M(520, FALSE, 760), M(550, TRUE, 720)>>
      [] phase = "STABILIZE" ->
        <<M(340, FALSE, 860), M(330, FALSE, 850), M(310, FALSE, 830), M(300, FALSE, 820), M(290, FALSE, 830), M(280, FALSE, 820)>>
      [] phase = "ARES_GATES" ->
        <<M(260, FALSE, 880), M(250, FALSE, 870), M(220, FALSE, 850), M(230, FALSE, 840), M(240, FALSE, 840), M(200, FALSE, 830)>>

SignalsCALM(key) ==
    CASE key = "macroSignals" ->
        <<S("Liquidity ROC", 220, 780), S("Vol regime", 180, 820), S("Rates impulse", 160, 740), S("Cross-asset corr", 200, 760)>>
      [] key = "masterSignals" ->
        <<S("Execution mode", 200, 840), S("Queue depth", 180, 800), S("Slippage est.", 180, 760)>>
      [] key = "kevlarSignals" ->
        <<S("Concentration caps", 180, 860), S("DD guard", 160, 820), S("Sector skew", 200, 780)>>
      [] key = "permSignals" ->
        <<S("Profit lock", 140, 800), S("Trail stops", 120, 760), S("TP ladder", 100, 740)>>
      [] key = "slofSignals" ->
        <<S("Overlay eligibility", 160, 820), S("Sizing envelope", 180, 780), S("Blocked reason", 50, 900)>>

SignalsBUILD_STRESS(key) ==
    CASE key = "macroSignals" ->
        <<S("Liquidity ROC", 620, 760), S("Vol regime", 550, 740), S("Rates impulse", 480, 700), S("Cross-asset corr", 640, 720)>>
      [] key = "masterSignals" ->
        <<S("Execution mode", 460, 780), S("Queue depth", 520, 720), S("Slippage est.", 560, 700)>>
      [] key = "kevlarSignals" ->
        <<S("Concentration caps", 520, 800), S("DD guard", 480, 760), S("Sector skew", 500, 720)>>
      [] key = "permSignals" ->
        <<S("Profit lock", 400, 780), S("Trail stops", 380, 740), S("TP ladder", 340, 720)>>
      [] key = "slofSignals" ->
        <<S("Overlay eligibility", 520, 760), S("Sizing envelope", 560, 740), S("Blocked reason", 300, 820)>>

SignalsCIRCUIT_BREAK(key) ==
    CASE key = "macroSignals" ->
        <<S("Liquidity ROC", 820, 740), S("Vol regime", 860, 720), S("Rates impulse", 700, 660), S("Cross-asset corr", 880, 700)>>
      [] key = "masterSignals" ->
        <<S("Execution mode", 780, 800), S("Queue depth", 740, 720), S("Slippage est.", 820, 680)>>
      [] key = "kevlarSignals" ->
        <<S("Concentration caps", 760, 860), S("DD guard", 800, 820), S("Sector skew", 700, 700)>>
      [] key = "permSignals" ->
        <<S("Profit lock", 740, 780), S("Trail stops", 720, 740), S("TP ladder", 550, 700)>>
      [] key = "slofSignals" ->
        <<S("Overlay eligibility", 860, 840), S("Sizing envelope", 900, 860), S("Blocked reason", 700, 920)>>

SignalsDELEVERAGE(key) ==
    CASE key = "macroSignals" ->
        <<S("Liquidity ROC", 640, 740), S("Vol regime", 700, 720), S("Rates impulse", 560, 680), S("Cross-asset corr", 660, 700)>>
      [] key = "masterSignals" ->
        <<S("Execution mode", 660, 820), S("Queue depth", 540, 740), S("Slippage est.", 600, 720)>>
      [] key = "kevlarSignals" ->
        <<S("Concentration caps", 620, 860), S("DD guard", 580, 820), S("Sector skew", 500, 740)>>
      [] key = "permSignals" ->
        <<S("Profit lock", 540, 800), S("Trail stops", 500, 760), S("TP ladder", 380, 740)>>
      [] key = "slofSignals" ->
        <<S("Overlay eligibility", 700, 860), S("Sizing envelope", 600, 780), S("Blocked reason", 420, 840)>>

SignalsSTABILIZE(key) ==
    CASE key = "macroSignals" ->
        <<S("Liquidity ROC", 480, 780), S("Vol regime", 400, 760), S("Rates impulse", 300, 720), S("Cross-asset corr", 380, 740)>>
      [] key = "masterSignals" ->
        <<S("Execution mode", 360, 820), S("Queue depth", 340, 760), S("Slippage est.", 380, 740)>>
      [] key = "kevlarSignals" ->
        <<S("Concentration caps", 400, 840), S("DD guard", 360, 800), S("Sector skew", 320, 760)>>
      [] key = "permSignals" ->
        <<S("Profit lock", 340, 780), S("Trail stops", 300, 760), S("TP ladder", 260, 720)>>
      [] key = "slofSignals" ->
        <<S("Overlay eligibility", 400, 780), S("Sizing envelope", 420, 760), S("Blocked reason", 220, 820)>>

SignalsARES_GATES(key) ==
    CASE key = "macroSignals" ->
        <<S("Liquidity ROC", 300, 820), S("Vol regime", 260, 800), S("Rates impulse", 240, 760), S("Cross-asset corr", 280, 780)>>
      [] key = "masterSignals" ->
        <<S("Execution mode", 280, 840), S("Queue depth", 240, 800), S("Slippage est.", 280, 780)>>
      [] key = "kevlarSignals" ->
        <<S("Concentration caps", 300, 840), S("DD guard", 280, 820), S("Sector skew", 240, 780)>>
      [] key = "permSignals" ->
        <<S("Profit lock", 240, 780), S("Trail stops", 220, 760), S("TP ladder", 200, 740)>>
      [] key = "slofSignals" ->
        <<S("Overlay eligibility", 220, 840), S("Sizing envelope", 260, 780), S("Blocked reason", 50, 900)>>

SignalsREENTRY(key) ==
    CASE key = "macroSignals" ->
        <<S("Liquidity ROC", 220, 840), S("Vol regime", 200, 820), S("Rates impulse", 180, 780), S("Cross-asset corr", 220, 800)>>
      [] key = "masterSignals" ->
        <<S("Execution mode", 260, 860), S("Queue depth", 220, 820), S("Slippage est.", 240, 800)>>
      [] key = "kevlarSignals" ->
        <<S("Concentration caps", 240, 860), S("DD guard", 220, 840), S("Sector skew", 200, 780)>>
      [] key = "permSignals" ->
        <<S("Profit lock", 200, 800), S("Trail stops", 180, 780), S("TP ladder", 160, 760)>>
      [] key = "slofSignals" ->
        <<S("Overlay eligibility", 180, 860), S("Sizing envelope", 220, 800), S("Blocked reason", 50, 900)>>

PhaseSignals(phase, key) ==
    CASE phase = "CALM" -> SignalsCALM(key)
      [] phase = "BUILD_STRESS" -> SignalsBUILD_STRESS(key)
      [] phase = "CIRCUIT_BREAK" -> SignalsCIRCUIT_BREAK(key)
      [] phase = "DELEVERAGE" -> SignalsDELEVERAGE(key)
      [] phase = "STABILIZE" -> SignalsSTABILIZE(key)
      [] phase = "ARES_GATES" -> SignalsARES_GATES(key)
      [] phase = "REENTRY" -> SignalsREENTRY(key)

-----------------------------------------------------------------------------
(* Engine construction *)

Alert(seq, sev, title) == [seq |-> seq, severity |-> sev, title |-> title]

Module(n, r, f, c, b) ==
    [name |-> n, risk_score |-> r, stress_flag |-> f, confidence |-> c, source_bucket |-> b]

\* mk of makeInitial: clamps score and confidence, derives the level
mk(n, s, c) == [name |-> n, score |-> clamp01(s), confidence |-> clamp01(c), level |-> levelFromScore(s)]

NoReentry == [present |-> FALSE, pmApproved |-> FALSE, tranche |-> 0, trancheCeiling |-> 0]

\* snapshot.portfolio is undefined until the first tick
NoPortfolio ==
    [present |-> FALSE, regime |-> Undefined, stressSource |-> Undefined,
     sleeves |-> [equity |-> 0, crypto |-> 0, defense |-> 0, cashOptions |-> 0],
     eqCryptoCeiling |-> 0, slofMax |-> 0, reentry |-> NoReentry, positions |-> <<>>]

makeInitial(t) ==
    [ts |-> t,
     scenarioId |-> Undefined,
     scenarioT |-> -1,
     scenarioName |-> Undefined,
     scenarioStep |-> Undefined,
     regime |-> "RISK_ON",
     exposureCeilingGross |-> SPEC_CEILINGS("RISK_ON"),
     stressSource |-> "GENERAL",
     arasModules |-> <<
        Module("Deleveraging Risk", 180, FALSE, 880, "MIXED"),
        Module("Crypto Microstructure", 160, FALSE, 860, "CRYPTO"),
        Module("Margin Stress", 140, FALSE, 840, "EQUITY"),
        Module("Dealer Gamma", 150, FALSE, 830, "EQUITY"),
        Module("PCR Regime", 170, FALSE, 820, "EQUITY"),
        Module("Shutdown Risk", 80, FALSE, 800, "CRYPTO")>>,
     aresGates |-> [gate1_stress_normalization |-> "WAIT",
                    gate2_conviction |-> "WAIT",
                    gate3_confirmation |-> "WAIT"],
     macroSignals |-> <<mk("Liquidity ROC", 220, 780), mk("Vol regime", 180, 820), mk("Rates impulse", 160, 740)>>,
     masterSignals |-> <<mk("Execution mode", 200, 840), mk("Slippage est.", 180, 760), mk("Kill-switch", 120, 920)>>,
     kevlarSignals |-> <<mk("Concentration caps", 180, 860), mk("DD guard", 160, 820), mk("Sector skew", 200, 780)>>,
     permSignals |-> <<mk("Profit lock", 140, 800), mk("Trail stops", 120, 760), mk("TP ladder", 100, 740)>>,
     slofSignals |-> <<mk("Overlay eligibility", 160, 820), mk("Sizing envelope", 180, 780), mk("Blocked reason", 50, 900)>>,
     portfolio |-> NoPortfolio,
     pillars |-> [p \in PillarIds |->
                    [status |-> "OK",
                     score |-> IF p = "ARAS" THEN Fine(180) ELSE Fine(200),
                     confidence |-> Fine(820)]],
     alerts |-> <<Alert(1, "info", <<"Engine initialized">>)>>]

\* new Engine(): field initialisers and the constructor.  alertSeq is the
\* ordinal of the last alert created; it stands for the alert's randomUUID
\* identity.  pmReentryApprovedAt = 0 is null.  The constructor reads
\* Date.now() three times: t0 for phaseT0, t1 for scenarioT0 and t2 in
\* makeInitial.
NewEngine(t0, t1, t2) ==
    [snapshot |-> makeInitial(t2),
     phase |-> "CALM",
     phaseT0 |-> t0,
     scenarioId |-> Null,
     scenarioT0 |-> t1,
     scenarioLastStep |-> Null,
     pmReentryApproved |-> FALSE,
     pmReentryApprovedAt |-> 0,
     timer |-> FALSE,
     intervals |-> 0,
     alertSeq |-> 1]

-----------------------------------------------------------------------------
(* Alert log *)

\* an append at the tail of the log, cut to the cap
AppendCappedAtTail(alerts, a) == Take(alerts \o <<a>>, AlertCap)

\* the log after one append: newest first, cut to the cap
AppendCapped(alerts, a) == Take(<<a>> \o alerts, AlertCap)

pushAlert(e, sev, title) ==
    [e EXCEPT !.alertSeq = @ + 1,
              !.snapshot.alerts = AppendCapped(@, Alert(e.alertSeq + 1, sev, title))]

-----------------------------------------------------------------------------
(* Regime / ceiling resolver *)

setRegime(e, regime, ceiling, stressSource) ==
    [e EXCEPT !.snapshot.regime = regime,
              !.snapshot.exposureCeilingGross = clampCeiling(ceiling),
              !.snapshot.stressSource = stressSource]

-----------------------------------------------------------------------------
(* Module aggregator *)

ModName(i) == <<"m1", "m2", "m3", "m4", "m5", "m6">>[i]

\* next = modules.map((m, i) => ({...m, ...(patch[i] ?? {})}))
RECURSIVE MergePatch(_, _)
MergePatch(modules, patch) ==
    IF modules = <<>> THEN <<>>
    ELSE <<IF patch # <<>>
           THEN [Head(modules) EXCEPT !.risk_score = Head(patch).risk_score,
                                      !.stress_flag = Head(patch).stress_flag,
                                      !.confidence = Head(patch).confidence]
           ELSE Head(modules)>>
         \o MergePatch(Tail(modules), IF patch # <<>> THEN Tail(patch) ELSE <<>>)

\* the per-module loop: stress_flag flips and crossings of the 0.65 threshold
RECURSIVE ModuleAlerts(_, _, _, _)
ModuleAlerts(e, prev, next, i) ==
    IF i > Len(next) THEN e
    ELSE
        LET p == prev[i]
            n == next[i]
            e1 == IF p.stress_flag # n.stress_flag
                  THEN pushAlert(e, IF n.stress_flag THEN "watch" ELSE "info",
                                 <<"ARAS", ModName(i), "stress_flag", IF n.stress_flag THEN "ON" ELSE "off">>)
                  ELSE e
            wasHigh == p.risk_score >= RiskThreshold
            isHigh == n.risk_score >= RiskThreshold
            e2 == IF wasHigh # isHigh
                  THEN pushAlert(e1, IF isHigh THEN "critical" ELSE "info",
                                 <<"ARAS", ModName(i), "risk", IF isHigh THEN ">=" ELSE "<">>)
                  ELSE e1
        IN ModuleAlerts(e2, prev, next, i + 1)

(* JS numbers are IEEE-754 binary64.  The stress-source rule compares sums,
   quotients and a difference of risk scores with 0.5 and 0.15, so its
   outcome at a threshold depends on the rounding of each operation.  The
   numbers involved lie in [0, 4) and are multiples of 2^-70, so a binary64
   value x is held exactly as the natural number x * 2^70, written as a
   little-endian sequence of 12-bit limbs without leading zero limbs. *)
LimbBits == 12
LimbBase == 2^LimbBits
FracBits == 70
MantissaBits == 53

RECURSIVE BigNorm(_)
BigNorm(a) ==
    IF a # <<>> /\ a[Len(a)] = 0 THEN BigNorm(SubSeq(a, 1, Len(a) - 1)) ELSE a

RECURSIVE Zeros(_)
Zeros(n) == IF n = 0 THEN <<>> ELSE <<0>> \o Zeros(n - 1)

BigPow2(n) == Zeros(n \div LimbBits) \o <<2^(n % LimbBits)>>

Limb(a, i) == IF i <= Len(a) THEN a[i] ELSE 0

RECURSIVE BigAddFrom(_, _, _, _)
BigAddFrom(a, b, i, carry) ==
    IF i > Len(a) /\ i > Len(b) THEN (IF carry = 0 THEN <<>> ELSE <<carry>>)
    ELSE <<(Limb(a, i) + Limb(b, i) + carry) % LimbBase>>
            \o BigAddFrom(a, b, i + 1, (Limb(a, i) + Limb(b, i) + carry) \div LimbBase)

BigAdd(a, b) == BigAddFrom(a, b, 1, 0)

\* a - b for a >= b
RECURSIVE BigSubFrom(_, _, _, _)
BigSubFrom(a, b, i, borrow) ==
    IF i > Len(a) THEN <<>>
    ELSE <<(LimbBase + a[i] - Limb(b, i) - borrow) % LimbBase>>
            \o BigSubFrom(a, b, i + 1, IF a[i] - Limb(b, i) - borrow < 0 THEN 1 ELSE 0)

BigSub(a, b) == BigNorm(BigSubFrom(a, b, 1, 0))

\* -1, 0 or 1 as a < b, a = b or a > b
RECURSIVE BigCmpFrom(_, _, _)
BigCmpFrom(a, b, i) ==
    IF i = 0 THEN 0
    ELSE IF a[i] > b[i] THEN 1
    ELSE IF a[i] < b[i] THEN -1
    ELSE BigCmpFrom(a, b, i - 1)

BigCmp(a, b) ==
    IF Len(a) > Len(b) THEN 1
    ELSE IF Len(a) < Len(b) THEN -1
    ELSE BigCmpFrom(a, b, Len(a))

\* a * k for 0 < k < LimbBase
RECURSIVE BigMulSmallFrom(_, _, _, _)
BigMulSmallFrom(a, k, i, carry) ==
    IF i > Len(a) THEN (IF carry = 0 THEN <<>> ELSE <<carry>>)
    ELSE <<(a[i] * k + carry) % LimbBase>>
            \o BigMulSmallFrom(a, k, i + 1, (a[i] * k + carry) \div LimbBase)

BigMulSmall(a, k) == BigMulSmallFrom(a, k, 1, 0)

\* quotient and remainder of a by a small d, from the most significant limb
RECURSIVE BigDivSmallFrom(_, _, _, _)
BigDivSmallFrom(a, d, i, rem) ==
    IF i = 0 THEN [q |-> <<>>, r |-> rem]
    ELSE [q |-> BigDivSmallFrom(a, d, i - 1, (rem * LimbBase + a[i]) % d).q
                   \o <<(rem * LimbBase + a[i]) \div d>>,
          r |-> BigDivSmallFrom(a, d, i - 1, (rem * LimbBase + a[i]) % d).r]

NormQuotient(dv) == [q |-> BigNorm(dv.q), r |-> dv.r]

BigDivSmall(a, d) == NormQuotient(BigDivSmallFrom(a, d, Len(a), 0))

RECURSIVE SmallBitLen(_)
SmallBitLen(n) == IF n = 0 THEN 0 ELSE 1 + SmallBitLen(n \div 2)

BigBitLen(a) ==
    IF a = <<>> THEN 0 ELSE (Len(a) - 1) * LimbBits + SmallBitLen(a[Len(a)])

\* round to nearest, ties to even: q is the kept mantissa, r the dropped
\* bits, half the weight of the first dropped bit; sticky says that a nonzero
\* fraction lies below r
RoundedMantissa(q, r, half, sticky) ==
    IF BigCmp(r, half) > 0 \/ (BigCmp(r, half) = 0 /\ (sticky \/ q[1] % 2 = 1))
    THEN BigAdd(q, <<1>>)
    ELSE q

\* a with its low s bits rounded away (s = 12k + j)
RoundBits(a, sticky, s, k, dv) ==
    Zeros(k) \o BigMulSmall(
        RoundedMantissa(dv.q, BigNorm(SubSeq(a, 1, k) \o <<dv.r>>), BigPow2(s - 1), sticky),
        2^(s % LimbBits))

RoundAway(a, sticky, s) ==
    RoundBits(a, sticky, s, s \div LimbBits,
              BigDivSmall(SubSeq(a, s \div LimbBits + 1, Len(a)), 2^(s % LimbBits)))

\* the binary64 nearest to a (plus a nonzero fraction when sticky)
RoundToMantissa(a, sticky) ==
    IF BigBitLen(a) <= MantissaBits THEN a
    ELSE RoundAway(a, sticky, BigBitLen(a) - MantissaBits)

RoundQuotient(dv) == RoundToMantissa(dv.q, dv.r # 0)

\* the binary64 a decimal literal of k thousandths denotes
FromDecimal(k) ==
    IF k = 0 THEN <<>>
    ELSE RoundQuotient(BigDivSmall(BigMulSmall(BigPow2(FracBits), k), 1000))

FAdd(a, b) == RoundToMantissa(BigAdd(a, b), FALSE)

FDiv(a, d) == RoundQuotient(BigDivSmall(a, d))

\* Math.abs(a - b)
FAbsDiff(a, b) ==
    IF BigCmp(a, b) >= 0
    THEN RoundToMantissa(BigSub(a, b), FALSE)
    ELSE RoundToMantissa(BigSub(b, a), FALSE)

\* the if-chain over cryptoAvg and equityAvg
StressSourceRule(cryptoAvg, equityAvg) ==
    IF /\ BigCmp(cryptoAvg, FromDecimal(500)) > 0
       /\ BigCmp(equityAvg, FromDecimal(500)) > 0
       /\ BigCmp(FAbsDiff(cryptoAvg, equityAvg), FromDecimal(150)) <= 0
    THEN "CORRELATED"
    ELSE IF /\ BigCmp(cryptoAvg, equityAvg) > 0
            /\ BigCmp(FAbsDiff(cryptoAvg, equityAvg), FromDecimal(150)) > 0
    THEN "CRYPTO"
    ELSE IF /\ BigCmp(equityAvg, cryptoAvg) > 0
            /\ BigCmp(FAbsDiff(equityAvg, cryptoAvg), FromDecimal(150)) > 0
    THEN "EQUITY"
    ELSE "GENERAL"

\* the same if-chain in exact arithmetic, on cs = 2 cryptoAvg and
\* es = 3 equityAvg in thousandths: cryptoAvg - equityAvg = (3cs - 2es) / 6
ExactStressSourceRule(cs, es) ==
    IF cs > 2 * 500 /\ es > 3 * 500 /\ Abs(3 * cs - 2 * es) <= 6 * 150 THEN "CORRELATED"
    ELSE IF 3 * cs - 2 * es > 6 * 150 THEN "CRYPTO"
    ELSE IF 2 * es - 3 * cs > 6 * 150 THEN "EQUITY"
    ELSE "GENERAL"

\* some comparison of the rule has equal sides in exact arithmetic.  Off
\* these points the sides differ by at least 1/6000 while the accumulated
\* rounding error stays below 2^-50, so rounding cannot change the outcome.
OnThreshold(cs, es) ==
    cs = 2 * 500 \/ es = 3 * 500 \/ Abs(3 * cs - 2 * es) = 6 * 150

\* the rule as the code computes it: each average is the reduce from 0 over
\* the risk scores of its indices (0 + x is x), divided by the number of
\* indices, every operation a binary64 operation
StressSourceBinary64(modules) ==
    StressSourceRule(
        FDiv(FAdd(FromDecimal(modules[2].risk_score), FromDecimal(modules[6].risk_score)), 2),
        FDiv(FAdd(FAdd(FromDecimal(modules[3].risk_score), FromDecimal(modules[4].risk_score)),
                  FromDecimal(modules[5].risk_score)), 3))

\* an aggregator that reads the modules one index too low
StressSourceOfShifted(modules) ==
    ExactStressSourceRule(
        modules[1].risk_score + modules[5].risk_score,
        modules[2].risk_score + modules[3].risk_score + modules[4].risk_score)

\* stress source from the crypto modules (indices 1,5 of the array) and the
\* equity modules (indices 2,3,4).  The binary64 computation is carried out
\* where rounding decides the outcome; elsewhere the exact rule stands for it.
StressSourceOf(modules) ==
    IF OnThreshold(modules[2].risk_score + modules[6].risk_score,
                   modules[3].risk_score + modules[4].risk_score + modules[5].risk_score)
    THEN StressSourceBinary64(modules)
    ELSE ExactStressSourceRule(
            modules[2].risk_score + modules[6].risk_score,
            modules[3].risk_score + modules[4].risk_score + modules[5].risk_score)

StressCount(modules) == Cardinality({i \in 1..Len(modules) : modules[i].stress_flag})

\* a crash override that waits for a fifth stress flag
CrashOverrideAtFive(e) ==
    IF StressCount(e.snapshot.arasModules) >= 5
    THEN [e EXCEPT !.snapshot.regime = "CRASH",
                   !.snapshot.exposureCeilingGross = Min(@, CrashCeiling)]
    ELSE e

\* a crash override that forces CRASH and leaves the ceiling alone
CrashOverrideUnclamped(e) ==
    IF StressCount(e.snapshot.arasModules) >= CrashFlagCount
    THEN [e EXCEPT !.snapshot.regime = "CRASH"]
    ELSE e

\* a crash override that lifts the ceiling to the DEFENSIVE one
CrashOverrideLoosening(e) ==
    IF StressCount(e.snapshot.arasModules) >= CrashFlagCount
    THEN [e EXCEPT !.snapshot.regime = "CRASH",
                   !.snapshot.exposureCeilingGross = Max(@, SPEC_CEILINGS("DEFENSIVE"))]
    ELSE e

\* 3+ stress flags => force CRASH and clamp the ceiling
CrashOverride(e) ==
    IF StressCount(e.snapshot.arasModules) >= CrashFlagCount
    THEN [e EXCEPT !.snapshot.regime = "CRASH",
                   !.snapshot.exposureCeilingGross = Min(@, CrashCeiling)]
    ELSE e

\* composite = clamp01(sum(risk * conf * (flag ? 1.5 : 1)) / sum(conf))
\* sum(risk * conf * (flag ? 1.5 : 1)), doubled to stay in the integers
RECURSIVE WeightedRisk2(_)
WeightedRisk2(modules) ==
    IF modules = <<>> THEN 0
    ELSE Head(modules).risk_score * Head(modules).confidence
            * (IF Head(modules).stress_flag THEN 3 ELSE 2)
         + WeightedRisk2(Tail(modules))

RECURSIVE SumConfidence(_)
SumConfidence(xs) ==
    IF xs = <<>> THEN 0 ELSE Head(xs).confidence + SumConfidence(Tail(xs))

CompositeScore(modules) ==
    clamp01(WeightedRisk2(modules) \div (2 * SumConfidence(modules)))

CompositeConfidence(modules) ==
    clamp01(SumConfidence(modules) \div Len(modules))

\* the modules are merged with the patch, alerted on, and stored
StoreModules(e, next) ==
    [ModuleAlerts(e, e.snapshot.arasModules, next, 1) EXCEPT !.snapshot.arasModules = next]

\* the stress source is recomputed from the stored modules; a change is alerted
StoreStressSource(e, src) ==
    IF e.snapshot.stressSource # src
    THEN pushAlert([e EXCEPT !.snapshot.stressSource = src], "watch", <<"ARAS", "stressSource", src>>)
    ELSE e

\* the crash override is alerted when it changed the regime or the ceiling
CrashOverrideAlert(before, e) ==
    IF before.snapshot.regime # e.snapshot.regime
         \/ before.snapshot.exposureCeilingGross # e.snapshot.exposureCeilingGross
    THEN pushAlert(e, "critical", <<"ARAS", "crash override">>)
    ELSE e

ApplyCrashOverride(e) == CrashOverrideAlert(e, CrashOverride(e))

\* the ARAS pillar's composite score and confidence
StoreComposite(e) ==
    [e EXCEPT !.snapshot.pillars["ARAS"].score = Fine(CompositeScore(e.snapshot.arasModules)),
              !.snapshot.pillars["ARAS"].confidence = Fine(CompositeConfidence(e.snapshot.arasModules))]

RecomputeStressSource(e) == StoreStressSource(e, StressSourceOf(e.snapshot.arasModules))

updateARASModules(e, patch) ==
    StoreComposite(ApplyCrashOverride(RecomputeStressSource(
        StoreModules(e, MergePatch(e.snapshot.arasModules, patch)))))

-----------------------------------------------------------------------------
(* Pillar registry and pillar signal aggregator *)

\* setPillar with a patch of status / score / confidence (a record holding
\* the patched fields only)
\* { ...cur, ...patch }
PatchedPillar(cur, patch) ==
    [status |-> IF "status" \in DOMAIN patch THEN patch.status ELSE cur.status,
     score |-> IF "score" \in DOMAIN patch THEN patch.score ELSE cur.score,
     confidence |-> IF "confidence" \in DOMAIN patch THEN patch.confidence ELSE cur.confidence]

\* what spreading this.snapshot.pillars[id] yields for an id the mapping lacks
MissingPillar == [status |-> Undefined, score |-> Undefined, confidence |-> Undefined]

\* this.snapshot.pillars[id] = {...}: an assignment under an id the mapping
\* lacks adds an entry
setPillar(e, id, patch) ==
    [e EXCEPT !.snapshot.pillars =
        (id :> PatchedPillar(IF id \in DOMAIN @ THEN @[id] ELSE MissingPillar, patch)) @@ @]

\* a table that files the SLOF signals under an id of its own
pillarByKeyWithAlias(key) ==
    CASE key = "macroSignals" -> "MACRO"
      [] key = "masterSignals" -> "MASTER"
      [] key = "kevlarSignals" -> "KEVLAR"
      [] key = "permSignals" -> "PERM"
      [] key = "slofSignals" -> "SLOF_OVERLAY"

pillarByKey(key) ==
    CASE key = "macroSignals" -> "MACRO"
      [] key = "masterSignals" -> "MASTER"
      [] key = "kevlarSignals" -> "KEVLAR"
      [] key = "permSignals" -> "PERM"
      [] key = "slofSignals" -> "SLOF"

\* normalise one incoming signal: clamp, derive the level if omitted
NormalizeSignal(s) ==
    LET score == clamp01(s.score)
    IN [name |-> s.name, score |-> score, confidence |-> clamp01(s.confidence),
        level |-> IF "level" \in DOMAIN s THEN s.level ELSE levelFromScore(score)]

\* prev.find((x) => x.name === name): index of the first match, 0 if none
FindByName(prev, name) ==
    IF \E j \in 1..Len(prev) : prev[j].name = name
    THEN CHOOSE j \in 1..Len(prev) :
            prev[j].name = name /\ \A k \in 1..(j - 1) : prev[k].name # name
    ELSE 0

RECURSIVE SignalAlerts(_, _, _, _, _)
SignalAlerts(e, pillar, prev, next, i) ==
    IF i > Len(next) THEN e
    ELSE
        LET s == next[i]
            j == FindByName(prev, s.name)
            e1 == IF j = 0 \/ prev[j].level = s.level THEN e
                  ELSE pushAlert(e,
                         IF s.level = "RISK" THEN "critical"
                         ELSE IF s.level = "WATCH" THEN "watch" ELSE "info",
                         <<pillar, s.name, s.level>>)
        IN SignalAlerts(e1, pillar, prev, next, i + 1)

\* the reduce over next: RISK beats WATCH beats OK
RECURSIVE WorstLevel(_, _)
WorstLevel(acc, sigs) ==
    IF sigs = <<>> THEN acc
    ELSE LET s == Head(sigs)
             a == IF acc = "RISK" \/ s.level = "RISK" THEN "RISK"
                  ELSE IF acc = "WATCH" \/ s.level = "WATCH" THEN "WATCH"
                  ELSE "OK"
         IN WorstLevel(a, Tail(sigs))

\* a roll-up that reports only RISK
StatusOfLevelRiskOnly(worst) ==
    IF worst = "RISK" THEN "TRIGGERED" ELSE "OK"

StatusOfLevel(worst) ==
    IF worst = "RISK" THEN "TRIGGERED" ELSE IF worst = "WATCH" THEN "ACTIVE" ELSE "OK"

RECURSIVE SumScoreConf(_)
SumScoreConf(xs) ==
    IF xs = <<>> THEN 0 ELSE Head(xs).score * Head(xs).confidence + SumScoreConf(Tail(xs))

ScoreAgg(next) ==
    IF Len(next) > 0 THEN SumScoreConf(next) \div SumConfidence(next) ELSE 0

ConfAgg(next) ==
    IF Len(next) > 0 THEN SumConfidence(next) \div Len(next) ELSE 0

RECURSIVE NormalizeAll(_)
NormalizeAll(signals) ==
    IF signals = <<>> THEN <<>>
    ELSE <<NormalizeSignal(Head(signals))>> \o NormalizeAll(Tail(signals))

\* the signals are alerted on and stored, and the pillar is aggregated from them
StoreSignals(e, key, pillar, next) ==
    setPillar([SignalAlerts(e, pillar, e.snapshot[key], next, 1) EXCEPT !.snapshot[key] = next],
              pillar,
              [status |-> StatusOfLevel(WorstLevel("OK", next)),
               score |-> Fine(clamp01(ScoreAgg(next))),
               confidence |-> Fine(clamp01(ConfAgg(next)))])

setSignals(e, key, signals) == StoreSignals(e, key, pillarByKey(key), NormalizeAll(signals))

\* the five setSignals calls of a phase handler, in source order
RECURSIVE SetPhaseSignals(_, _, _)
SetPhaseSignals(e, phase, k) ==
    IF k > Len(SignalKeys) THEN e
    ELSE SetPhaseSignals(setSignals(e, SignalKeys[k], PhaseSignals(phase, SignalKeys[k])), phase, k + 1)

-----------------------------------------------------------------------------
(* Control operations of the engine *)

\* JS truthiness of a string, null or undefined: only the empty string, null
\* and undefined are falsy
Truthy(x) == x.type = "string" /\ x.val # ""

\* e.timer: this.timer holds an interval handle; e.intervals: the intervals
\* the runtime keeps alive, each of which fires tick()

\* a start that sets a new interval whether or not one is running
startAlways(e) == [e EXCEPT !.timer = TRUE, !.intervals = @ + 1]

start(e) == IF e.timer THEN e ELSE [e EXCEPT !.timer = TRUE, !.intervals = @ + 1]

\* clearInterval(this.timer) ends the interval this.timer holds
stop(e) == [e EXCEPT !.timer = FALSE, !.intervals = IF e.timer THEN @ - 1 ELSE @]

\* a setPhase that leaves the dwell clock running
setPhaseKeepingClock(e, phase, t) ==
    pushAlert([e EXCEPT !.phase = phase], "info", <<"Phase", phase>>)

setPhase(e, phase, t) ==
    pushAlert([e EXCEPT !.phase = phase, !.phaseT0 = t], "info", <<"Phase", phase>>)

\* a setScenario that forgets to reset the PM approval
setScenarioKeepingApproval(e, scenarioId, t) ==
    pushAlert([e EXCEPT !.scenarioId = scenarioId,
                        !.scenarioT0 = t,
                        !.scenarioLastStep = Null],
              "info", <<"Scenario", scenarioId.val>>)

setScenario(e, scenarioId, t) ==
    pushAlert([e EXCEPT !.scenarioId = scenarioId,
                        !.scenarioT0 = t,
                        !.scenarioLastStep = Null,
                        !.pmReentryApproved = FALSE,
                        !.pmReentryApprovedAt = 0],
              "info", <<"Scenario", scenarioId.val>>)

clearScenario(e) ==
    pushAlert([e EXCEPT !.scenarioId = Null,
                        !.scenarioLastStep = Null,
                        !.pmReentryApproved = FALSE,
                        !.pmReentryApprovedAt = 0],
              "info", <<"Scenario cleared">>)

autoDemo(e, t) ==
    pushAlert(setScenario(e, JsStr("S3"), t), "info", <<"AUTO-DEMO started">>)

approveReentry(e, t) ==
    pushAlert([e EXCEPT !.pmReentryApproved = TRUE, !.pmReentryApprovedAt = t],
              "watch", <<"Re-entry approved (PM)">>)

\* a forcePhase that leaves the phase alone
forcePhaseNever(e, phase, t) == e

forcePhase(e, phase, t) ==
    IF e.phase = phase THEN e ELSE [e EXCEPT !.phase = phase, !.phaseT0 = t]

\* the scripted timelines; tMs is the scenario age in ms.  Any id other than
\* S1 and S2 falls through to the S3 timeline.
scenarioPhaseFor(id, tMs) ==
    IF id = JsStr("S1") THEN
        IF tMs < 15000 THEN "CALM"
        ELSE IF tMs < 45000 THEN "BUILD_STRESS"
        ELSE IF tMs < 60000 THEN "DELEVERAGE"
        ELSE IF tMs < 80000 THEN "STABILIZE"
        ELSE IF tMs < 95000 THEN "ARES_GATES"
        ELSE "REENTRY"
    ELSE IF id = JsStr("S2") THEN
        IF tMs < 12000 THEN "CALM"
        ELSE IF tMs < 40000 THEN "BUILD_STRESS"
        ELSE IF tMs < 58000 THEN "DELEVERAGE"
        ELSE IF tMs < 78000 THEN "STABILIZE"
        ELSE IF tMs < 92000 THEN "ARES_GATES"
        ELSE "REENTRY"
    ELSE
        IF tMs < 12000 THEN "CALM"
        ELSE IF tMs < 34000 THEN "BUILD_STRESS"
        ELSE IF tMs < 44000 THEN "CIRCUIT_BREAK"
        ELSE IF tMs < 64000 THEN "DELEVERAGE"
        ELSE IF tMs < 84000 THEN "STABILIZE"
        ELSE IF tMs < 104000 THEN "ARES_GATES"
        ELSE "REENTRY"

scenarioNameOf(id) ==
    IF id = JsStr("S1") THEN "Risk-on -> tightening -> defensive cut"
    ELSE IF id = JsStr("S2") THEN "Crypto leverage unwind (crypto-dominant)"
    ELSE "Correlated crash + circuit-break + recovery gates"

-----------------------------------------------------------------------------
(* Engine.tick *)

\* The Math.random() draws of one tick.  draws[p] holds the two outcomes the
\* drift loop draws for pillar p, the first (s) for its score and the second
\* (c) for its confidence, fourteen independent draws in all; an outcome is
\* counted in hundredths (r stands for r / 100, 0 <= r < 100).  a1 and a2 are
\* the outcomes of the first and second probabilistic-alert test of the phase
\* handler.
Draw(s, c) == [s |-> s, c |-> c]

\* every draw of the drift loop at 0.5 (no drift), no probabilistic alert
NoRandom == [draws |-> [p \in PillarIds |-> Draw(50, 50)], a1 |-> FALSE, a2 |-> FALSE]

\* (Math.random() - 0.5) * 0.01 in ten-thousandths, for an outcome r
driftOf(r) == r - 50

\* The Date.now() reads of one call of tick that reach the state, in the
\* order the code makes them; a path that skips a read leaves it unused.
\*   ts        const t = now() at the head of tick
\*   scenario  scenarioAgeSec() of the playback
\*   force     forcePhase(phase) of the playback
\*   phase     phaseAgeSec() before the switch
\*   reentry   dt of case REENTRY
\*   exit      the setPhase or forcePhase that ends the handler
Reads(ts, scenario, force, phase, reentry, exit) ==
    [ts |-> ts, scenario |-> scenario, force |-> force, phase |-> phase,
     reentry |-> reentry, exit |-> exit]

\* a clock that stands still during the call
At(t) == Reads(t, t, t, t, t, t)

\* scenario playback at the head of tick (lines 620-687)
S3StoryBeat(e, phase) ==
    IF phase = "CIRCUIT_BREAK" THEN pushAlert(e, "critical", <<"Circuit breaker L3">>)
    ELSE IF phase = "DELEVERAGE" THEN pushAlert(e, "critical", <<"Kill-chain executing">>)
    ELSE IF phase = "ARES_GATES" THEN pushAlert(e, "info", <<"ARES: begin three-gate confirmation">>)
    ELSE IF phase = "REENTRY" THEN pushAlert(e, "watch", <<"Re-entry ready: PM approval required">>)
    ELSE e

\* a step alert on every tick, changed or not
ScenarioStepAlways(e, phase) ==
    pushAlert([e EXCEPT !.scenarioLastStep = JsStr(phase)], "info", <<"Scenario step", phase>>)

\* a change of scripted step is alerted once; S3 adds its story beat
ScenarioStep(e, phase) ==
    IF e.scenarioLastStep # JsStr(phase)
    THEN IF e.scenarioId = JsStr("S3")
         THEN S3StoryBeat(pushAlert([e EXCEPT !.scenarioLastStep = JsStr(phase)],
                                    "info", <<"Scenario step", phase>>), phase)
         ELSE pushAlert([e EXCEPT !.scenarioLastStep = JsStr(phase)], "info", <<"Scenario step", phase>>)
    ELSE e

PlayScenario(e, t, age, phase) ==
    forcePhase(ScenarioStep([e EXCEPT !.snapshot.scenarioId = e.scenarioId,
                                      !.snapshot.scenarioT = age,
                                      !.snapshot.scenarioName = JsStr(scenarioNameOf(e.scenarioId)),
                                      !.snapshot.scenarioStep = JsStr(phase)],
                            phase),
               phase, t)

ScenarioPlayback(e, c) ==
    IF Truthy(e.scenarioId)
    THEN PlayScenario(e, c.force, c.scenario - e.scenarioT0,
                      scenarioPhaseFor(e.scenarioId, c.scenario - e.scenarioT0))
    ELSE [e EXCEPT !.snapshot.scenarioId = Undefined,
                   !.snapshot.scenarioT = -1,
                   !.snapshot.scenarioName = Undefined,
                   !.snapshot.scenarioStep = Undefined]

\* drift of every pillar's score and confidence, free-running only
DriftPillar(e, id, rv) ==
    setPillar(e, id,
              [score |-> clamp01Fine(e.snapshot.pillars[id].score + driftOf(rv.draws[id].s)),
               confidence |-> clamp01Fine(e.snapshot.pillars[id].confidence
                                            + driftOf(rv.draws[id].c))])

\* a drift that is applied during scenario playback too
DriftAlways(e, rv) ==
    DriftPillar(DriftPillar(DriftPillar(DriftPillar(DriftPillar(DriftPillar(DriftPillar(
        e, "ARAS", rv), "MACRO", rv), "MASTER", rv), "KEVLAR", rv), "PERM", rv), "SLOF", rv), "ARES", rv)

Drift(e, rv) ==
    IF ~Truthy(e.scenarioId)
    THEN DriftPillar(DriftPillar(DriftPillar(DriftPillar(DriftPillar(DriftPillar(DriftPillar(
            e, "ARAS", rv), "MACRO", rv), "MASTER", rv), "KEVLAR", rv), "PERM", rv), "SLOF", rv), "ARES", rv)
    ELSE e

\* gates stored in reverse order
setGatesReversed(e, g1, g2, g3) ==
    [e EXCEPT !.snapshot.aresGates =
        [gate1_stress_normalization |-> g3, gate2_conviction |-> g2, gate3_confirmation |-> g1]]

setGates(e, g1, g2, g3) ==
    [e EXCEPT !.snapshot.aresGates =
        [gate1_stress_normalization |-> g1, gate2_conviction |-> g2, gate3_confirmation |-> g3]]

PassCount(gates) == Cardinality({k \in DOMAIN gates : gates[k] = "PASS"})

FreeRunning(e) == ~Truthy(e.scenarioId)

\* if (!this.scenarioId && Math.random() < p) pushAlert(...)
RandomAlert(e, drawn, sev, title) ==
    IF FreeRunning(e) /\ drawn THEN pushAlert(e, sev, title) ELSE e

\* a dwell transition taken as soon as the dwell is reached
AdvanceOnDwell(e, t, age, dwell, next) ==
    IF FreeRunning(e) /\ age >= dwell THEN setPhase(e, next, t) ELSE e

\* a dwell transition that always returns to CALM
AdvanceToCalm(e, t, age, dwell, next) ==
    IF FreeRunning(e) /\ age > dwell THEN setPhase(e, "CALM", t) ELSE e

\* if (!this.scenarioId && age > dwell) setPhase(next)
Advance(e, t, age, dwell, next) ==
    IF FreeRunning(e) /\ age > dwell THEN setPhase(e, next, t) ELSE e

\* Each handler below is the sequence of engine calls of its case, innermost
\* call first.
CaseCALM(e, c, age, rv) ==
    Advance(
        setPillar(
            setPillar(
                SetPhaseSignals(
                    setGates(
                        updateARASModules(
                            setRegime(e, "RISK_ON", SPEC_CEILINGS("RISK_ON"), "GENERAL"),
                            ModulePatch("CALM")),
                        "WAIT", "WAIT", "WAIT"),
                    "CALM", 1),
                "ARAS", [status |-> "OK"]),
            "ARES", [status |-> "SUSPENDED"]),
        c.exit, age, 18000, "BUILD_STRESS")

CaseBUILD_STRESS(e, c, age, rv) ==
    Advance(
        RandomAlert(
            RandomAlert(
                setPillar(
                    setGates(
                        SetPhaseSignals(
                            updateARASModules(
                                setRegime(e, "NEUTRAL", SPEC_CEILINGS("NEUTRAL"), "CORRELATED"),
                                ModulePatch("BUILD_STRESS")),
                            "BUILD_STRESS", 1),
                        "WAIT", "WAIT", "WAIT"),
                    "ARAS", [status |-> "ACTIVE"]),
                rv.a1, "watch", <<"ARAS: correlated stress rising">>),
            rv.a2, "watch", <<"MACRO: liquidity deteriorating">>),
        c.exit, age, 25000, "CIRCUIT_BREAK")

\* the regime the circuit breaker publishes after the module aggregator ran
CircuitBreakRegime(e) ==
    IF e.scenarioId = JsStr("S3")
    THEN setRegime(e, "CRASH", SPEC_CEILINGS("CRASH"), "CORRELATED")
    ELSE setRegime(e, "DEFENSIVE",
                   Min(e.snapshot.exposureCeilingGross, SPEC_CEILINGS("DEFENSIVE")),
                   e.snapshot.stressSource)

\* the circuit breaker lasts one tick
CircuitBreakExit(e, t) ==
    IF Truthy(e.scenarioId)
    THEN forcePhase(e, "DELEVERAGE", t)
    ELSE setPhase(pushAlert(e, "critical", <<"Circuit breaker: intraday deleverage">>),
                  "DELEVERAGE", t)

CaseCIRCUIT_BREAK(e, c, age, rv) ==
    CircuitBreakExit(
        setPillar(
            CircuitBreakRegime(
                SetPhaseSignals(
                    updateARASModules(e, ModulePatch("CIRCUIT_BREAK")),
                    "CIRCUIT_BREAK", 1)),
            "ARAS", [status |-> "TRIGGERED"]),
        c.exit)

DeleverageRegime(e) ==
    IF e.scenarioId = JsStr("S3")
    THEN setRegime(e, "CRASH", SPEC_CEILINGS("CRASH"), e.snapshot.stressSource)
    ELSE setRegime(e, "DEFENSIVE", 350, e.snapshot.stressSource)

CaseDELEVERAGE(e, c, age, rv) ==
    Advance(
        RandomAlert(
            SetPhaseSignals(
                updateARASModules(DeleverageRegime(e), ModulePatch("DELEVERAGE")),
                "DELEVERAGE", 1),
            rv.a1, "info", <<"KEVLAR: caps enforced">>),
        c.exit, age, 18000, "STABILIZE")

StabilizeRegime(e) ==
    IF e.scenarioId = JsStr("S3")
    THEN setRegime(e, "DEFENSIVE", SPEC_CEILINGS("DEFENSIVE"), "GENERAL")
    ELSE setRegime(e, "NEUTRAL", 550, "GENERAL")

CaseSTABILIZE(e, c, age, rv) ==
    Advance(
        setGates(
            setPillar(
                SetPhaseSignals(
                    updateARASModules(StabilizeRegime(e), ModulePatch("STABILIZE")),
                    "STABILIZE", 1),
                "ARAS", [status |-> "ACTIVE"]),
            IF age > 10000 THEN "PASS" ELSE "WAIT", "WAIT", "WAIT"),
        c.exit, age, 20000, "ARES_GATES")

AresGatesRegime(e) ==
    setRegime(e, "NEUTRAL",
              IF e.scenarioId = JsStr("S3") THEN SPEC_CEILINGS("NEUTRAL") ELSE 600, "GENERAL")

\* ARES is TRIGGERED once the three gates pass
AresGatesStatus(e) ==
    setPillar(e, "ARES",
              [status |-> IF PassCount(e.snapshot.aresGates) >= 3 THEN "TRIGGERED" ELSE "ACTIVE"])

CaseARES_GATES(e, c, age, rv) ==
    Advance(
        RandomAlert(
            AresGatesStatus(
                setGates(
                    SetPhaseSignals(
                        updateARASModules(AresGatesRegime(e), ModulePatch("ARES_GATES")),
                        "ARES_GATES", 1),
                    "PASS",
                    IF age > 10000 THEN "PASS" ELSE "WAIT",
                    IF age > 18000 THEN "PASS" ELSE "WAIT")),
            rv.a1, "info", <<"ARES gate update">>),
        c.exit, age, 25000, "REENTRY")

\* tranche reached dtMs after the approval, and its ceiling
TrancheAt(dtMs) == IF dtMs < 10000 THEN 1 ELSE IF dtMs < 20000 THEN 2 ELSE IF dtMs < 30000 THEN 3 ELSE 4

TrancheCeilingOf(tranche) ==
    IF tranche = 1 THEN 250 ELSE IF tranche = 2 THEN 500 ELSE IF tranche = 3 THEN 750 ELSE 1000

\* the tranche ladder of an approved S3 re-entry, dt after the approval
ReentryLadder(e, tranche) ==
    IF tranche < 4
    THEN setPillar(setRegime(e, "NEUTRAL", TrancheCeilingOf(tranche), "GENERAL"),
                   "ARES", [status |-> "ACTIVE"])
    ELSE setPillar(setRegime(e, "RISK_ON", SPEC_CEILINGS("RISK_ON"), "GENERAL"),
                   "ARES", [status |-> "TRIGGERED"])

ReentryRegime(e, t) ==
    IF e.scenarioId = JsStr("S3") /\ ~e.pmReentryApproved
    THEN setPillar(setRegime(e, "NEUTRAL", SPEC_CEILINGS("NEUTRAL"), "GENERAL"),
                   "ARES", [status |-> "TRIGGERED"])
    ELSE IF e.scenarioId = JsStr("S3") /\ e.pmReentryApproved
    THEN ReentryLadder(e, TrancheAt(IF e.pmReentryApprovedAt # 0
                                    THEN t - e.pmReentryApprovedAt ELSE 0))
    ELSE setRegime(e, "RISK_ON",
                   IF e.scenarioId = JsStr("S3") THEN SPEC_CEILINGS("RISK_ON") ELSE 850, "GENERAL")

\* outside S3 the ARES pillar is TRIGGERED in REENTRY
ReentryAresStatus(e) ==
    IF e.scenarioId # JsStr("S3") THEN setPillar(e, "ARES", [status |-> "TRIGGERED"]) ELSE e

CaseREENTRY(e, c, age, rv) ==
    Advance(
        RandomAlert(
            ReentryAresStatus(
                SetPhaseSignals(
                    setGates(ReentryRegime(e, c.reentry), "PASS", "PASS", "PASS"),
                    "REENTRY", 1)),
            rv.a1, "watch", <<"Re-entry authorized (PM)">>),
        c.exit, age, 25000, "CALM")

\* switch (this.phase): a phase that is none of the seven has no case
PhaseHandler(e, c, rv) ==
    LET age == c.phase - e.phaseT0
    IN CASE e.phase = "CALM" -> CaseCALM(e, c, age, rv)
         [] e.phase = "BUILD_STRESS" -> CaseBUILD_STRESS(e, c, age, rv)
         [] e.phase = "CIRCUIT_BREAK" -> CaseCIRCUIT_BREAK(e, c, age, rv)
         [] e.phase = "DELEVERAGE" -> CaseDELEVERAGE(e, c, age, rv)
         [] e.phase = "STABILIZE" -> CaseSTABILIZE(e, c, age, rv)
         [] e.phase = "ARES_GATES" -> CaseARES_GATES(e, c, age, rv)
         [] e.phase = "REENTRY" -> CaseREENTRY(e, c, age, rv)
         [] OTHER -> e

\* re-entry state derived at the end of tick from the published regime and ceiling
TrancheFromCeiling(regime, ceiling) ==
    IF regime = "RISK_ON" THEN 4
    ELSE IF ceiling <= 260 THEN 1
    ELSE IF ceiling <= 510 THEN 2
    ELSE IF ceiling <= 760 THEN 3
    ELSE 4

ReentryState(e) ==
    IF e.scenarioId = JsStr("S3")
    THEN [present |-> TRUE,
          pmApproved |-> e.pmReentryApproved,
          tranche |-> IF e.pmReentryApproved
                      THEN TrancheFromCeiling(e.snapshot.regime, e.snapshot.exposureCeilingGross)
                      ELSE 0,
          trancheCeiling |-> IF e.pmReentryApproved
                             THEN Min(1000, Max(250, e.snapshot.exposureCeilingGross))
                             ELSE SPEC_EQCR_CEILINGS("NEUTRAL")]
    ELSE NoReentry

-----------------------------------------------------------------------------
(* Portfolio allocator *)

\* Weights are exact fractions of NAV counted in units of 1 / WeightScale of
\* a thousandth.  With the target tables of the source every division below
\* is exact, so a weight is the real number the source's formula denotes; the
\* source evaluates the same formula in binary64.  Divisions come before
\* multiplications where that keeps the intermediate values below 2^31.
WeightScale == 10 * (ARCH_AB_TARGET_SLEEVES.equity + ARCH_AB_TARGET_SLEEVES.crypto)

\* a fraction given in thousandths, as a weight
Weight(x) == x * WeightScale

RECURSIVE sumPct(_)
sumPct(xs) == IF xs = <<>> THEN 0 ELSE Head(xs).pct + sumPct(Tail(xs))

\* (x.pct / (sumPct(xs) || 1)) * total
normalizeTo(xs, total) ==
    [i \in DOMAIN xs |->
        [xs[i] EXCEPT !.pct = (@ * total) \div (IF sumPct(xs) = 0 THEN 1000 ELSE sumPct(xs))]]

\* Math.max(0, 1 - (eqCrCeiling + defense))
cashOptionsOf(eqCrCeiling) ==
    Max(0, Weight(1000) - (Weight(eqCrCeiling) + Weight(ARCH_AB_TARGET_SLEEVES.defense)))

\* crypto = eqCrCeiling * (1 - eqShare), eqShare = equity / (equity + crypto)
bySleeveWeights(regime, eqCrCeiling) ==
    [equity |-> (Weight(eqCrCeiling)
                    \div (ARCH_AB_TARGET_SLEEVES.equity + ARCH_AB_TARGET_SLEEVES.crypto))
                 * ARCH_AB_TARGET_SLEEVES.equity,
     crypto |-> Weight(eqCrCeiling)
                    - (Weight(eqCrCeiling)
                          \div (ARCH_AB_TARGET_SLEEVES.equity + ARCH_AB_TARGET_SLEEVES.crypto))
                      * ARCH_AB_TARGET_SLEEVES.equity,
     defense |-> Weight(ARCH_AB_TARGET_SLEEVES.defense),
     cashOptions |-> cashOptionsOf(eqCrCeiling)]

\* a cut applied in every regime
applyCutAlways(regime, stressSource, sleeve, base) ==
    IF sleeve = "CRYPTO"
    THEN (base * (1000 - SPEC_SOURCE_TARGETED_CUTS(stressSource).cryptoCut)) \div 1000
    ELSE IF sleeve = "EQUITY"
    THEN (base * (1000 - SPEC_SOURCE_TARGETED_CUTS(stressSource).equityCut)) \div 1000
    ELSE base

\* base * (regime is CRASH or DEFENSIVE ? 1 - cut : 1)
applyCut(regime, stressSource, sleeve, base) ==
    IF sleeve = "CRYPTO"
    THEN IF regime \in {"CRASH", "DEFENSIVE"}
         THEN (base * (1000 - SPEC_SOURCE_TARGETED_CUTS(stressSource).cryptoCut)) \div 1000
         ELSE base
    ELSE IF sleeve = "EQUITY"
    THEN IF regime \in {"CRASH", "DEFENSIVE"}
         THEN (base * (1000 - SPEC_SOURCE_TARGETED_CUTS(stressSource).equityCut)) \div 1000
         ELSE base
    ELSE base

\* a gate that lets every tagged instrument through before approval
trancheAllowsUnapproved(reentry, pTranche) ==
    IF pTranche = 0 THEN TRUE
    ELSE IF ~reentry.present THEN TRUE
    ELSE reentry.tranche >= pTranche \/ ~reentry.pmApproved

\* re-entry tranche gating; pTranche = 0 is an instrument without a tranche
trancheAllows(reentry, pTranche) ==
    IF pTranche = 0 THEN TRUE
    ELSE IF ~reentry.present THEN TRUE
    ELSE IF ~reentry.pmApproved THEN FALSE
    ELSE reentry.tranche >= pTranche

PositionReason(regime, reentry) ==
    IF reentry.present THEN "ARES re-entry"
    ELSE IF regime = "RISK_ON" THEN "Normal allocation"
    ELSE "Ceiling + cuts"

\* eq / cr of buildPositions: the normalized targets of one sleeve as positions
SleevePositions(targets, sleeve, regime, stressSource, reentry) ==
    [i \in DOMAIN targets |->
        [ticker |-> targets[i].ticker,
         sleeve |-> sleeve,
         tranche |-> targets[i].tranche,
         targetPct |-> targets[i].pct,
         currentPct |-> IF trancheAllows(reentry, targets[i].tranche)
                        THEN applyCut(regime, stressSource, sleeve, targets[i].pct)
                        ELSE 0,
         reason |-> PositionReason(regime, reentry)]]

DefensePositions ==
    [i \in DOMAIN TARGET_DEFENSE |->
        [ticker |-> TARGET_DEFENSE[i].ticker,
         sleeve |-> "DEFENSE",
         tranche |-> 0,
         targetPct |-> Weight(TARGET_DEFENSE[i].pct),
         currentPct |-> Weight(TARGET_DEFENSE[i].pct),
         reason |-> "Structural defense (exempt)"]]

CashPosition(regime, effEqCr) ==
    <<[ticker |-> "CASH+OPT",
       sleeve |-> "CASH_OPTIONS",
       tranche |-> 0,
       targetPct |-> Weight(ARCH_AB_TARGET_SLEEVES.cashOptions),
       currentPct |-> bySleeveWeights(regime, effEqCr).cashOptions,
       reason |-> "Cash + options sleeve"]>>

\* Array.prototype.sort((a, b) => b.currentPct - a.currentPct): stable,
\* descending by current weight
RECURSIVE InsertByCurrent(_, _)
InsertByCurrent(x, sorted) ==
    IF sorted = <<>> THEN <<x>>
    ELSE IF Head(sorted).currentPct <= x.currentPct THEN <<x>> \o sorted
    ELSE <<Head(sorted)>> \o InsertByCurrent(x, Tail(sorted))

RECURSIVE SortByCurrent(_)
SortByCurrent(xs) ==
    IF xs = <<>> THEN <<>> ELSE InsertByCurrent(Head(xs), SortByCurrent(Tail(xs)))

\* effEqCr is reentry.trancheCeiling when a re-entry state is passed
buildPositions(regime, stressSource, eqCrCeiling, reentry) ==
    SortByCurrent(
        SleevePositions(
            normalizeTo(TARGET_EQUITY,
                        bySleeveWeights(regime, IF reentry.present THEN reentry.trancheCeiling
                                                ELSE eqCrCeiling).equity),
            "EQUITY", regime, stressSource, reentry)
        \o SleevePositions(
            normalizeTo(TARGET_CRYPTO,
                        bySleeveWeights(regime, IF reentry.present THEN reentry.trancheCeiling
                                                ELSE eqCrCeiling).crypto),
            "CRYPTO", regime, stressSource, reentry)
        \o DefensePositions
        \o CashPosition(regime, IF reentry.present THEN reentry.trancheCeiling ELSE eqCrCeiling))

EqCrCeilingOf(regime, reentry) ==
    IF reentry.present THEN reentry.trancheCeiling ELSE SPEC_EQCR_CEILINGS(regime)

buildPortfolioSnapshot(regime, stressSource, reentry) ==
    [present |-> TRUE,
     regime |-> regime,
     stressSource |-> stressSource,
     sleeves |-> bySleeveWeights(regime, EqCrCeilingOf(regime, reentry)),
     eqCryptoCeiling |-> EqCrCeilingOf(regime, reentry),
     slofMax |-> SPEC_SLOF_MAX_BY_REGIME(regime),
     reentry |-> reentry,
     positions |-> buildPositions(regime, stressSource, EqCrCeilingOf(regime, reentry), reentry)]

\* the portfolio published at the end of tick
PublishPortfolio(e) ==
    [e EXCEPT !.snapshot.portfolio =
        buildPortfolioSnapshot(e.snapshot.regime, e.snapshot.stressSource, ReentryState(e))]

tick(e, c, rv) ==
    PublishPortfolio(
        PhaseHandler(Drift(ScenarioPlayback([e EXCEPT !.snapshot.ts = c.ts], c), rv), c, rv))

-----------------------------------------------------------------------------
(* The control route: POST /api/control *)

\* a request body: its fields are JS values, Undefined when absent
Body(action, phase, scenarioId) ==
    [present |-> TRUE, action |-> action, phase |-> phase, scenarioId |-> scenarioId]

\* what req.json().catch(() => ({})) yields for a body that is not JSON
MalformedBody == Body(Undefined, Undefined, Undefined)

NoReq == [present |-> FALSE, action |-> Undefined, phase |-> Undefined, scenarioId |-> Undefined]
NoResp == [present |-> FALSE, ok |-> FALSE, status |-> 0]
RespOk == [present |-> TRUE, ok |-> TRUE, status |-> 200]
RespUnknown == [present |-> TRUE, ok |-> FALSE, status |-> 400]

\* a dispatch whose fall-through starts the default scenario
DispatchDefaultsToAutoDemo(e, body, t) ==
    IF body.action = JsStr("setPhase") /\ body.phase.type = "string"
    THEN [engine |-> setPhase(e, body.phase.val, t), resp |-> RespOk]
    ELSE IF body.action = JsStr("setScenario") /\ body.scenarioId.type = "string"
    THEN [engine |-> setScenario(e, body.scenarioId, t), resp |-> RespOk]
    ELSE IF body.action = JsStr("approveReentry")
    THEN [engine |-> approveReentry(e, t), resp |-> RespOk]
    ELSE [engine |-> autoDemo(e, t), resp |-> RespUnknown]

\* POST runs demoEngine.start() and then awaits req.json(): the handler
\* returns to the event loop and resumes here, on the engine as it is when
\* the body has arrived.  The engine call made and the response returned
Dispatch(e, body, t) ==
    IF body.action = JsStr("setPhase") /\ body.phase.type = "string"
    THEN [engine |-> setPhase(e, body.phase.val, t), resp |-> RespOk]
    ELSE IF body.action = JsStr("setScenario") /\ body.scenarioId.type = "string"
    THEN [engine |-> setScenario(e, body.scenarioId, t), resp |-> RespOk]
    ELSE IF body.action = JsStr("autoDemo")
    THEN [engine |-> autoDemo(e, t), resp |-> RespOk]
    ELSE IF body.action = JsStr("approveReentry")
    THEN [engine |-> approveReentry(e, t), resp |-> RespOk]
    ELSE [engine |-> e, resp |-> RespUnknown]

\* the bodies the route recognises
Recognized(body) ==
    \/ body.action = JsStr("setPhase") /\ body.phase.type = "string"
    \/ body.action = JsStr("setScenario") /\ body.scenarioId.type = "string"
    \/ body.action = JsStr("autoDemo")
    \/ body.action = JsStr("approveReentry")

-----------------------------------------------------------------------------
(* Inputs *)

\* ticks executed since construction
TickNo == (now - StartTime) \div TickStep

PhaseRequests ==
    {Body(JsStr("setPhase"), JsStr(p), Undefined) : p \in PhaseSet \cup {"BOGUS"}}
      \cup {Body(JsStr("setPhase"), JsNum("3"), Undefined)}

ScenarioRequests ==
    {Body(JsStr("setScenario"), Undefined, JsStr(s)) : s \in ScenarioIds \cup {"S9", "null"}}
      \cup {Body(JsStr("setScenario"), Undefined, JsNum("3"))}

OtherRequests ==
    {Body(JsStr("autoDemo"), Undefined, Undefined),
     Body(JsStr("approveReentry"), Undefined, Undefined),
     Body(JsStr("clearScenario"), Undefined, Undefined),
     MalformedBody}

\* requests offered right after construction
FirstRequests == PhaseRequests \cup ScenarioRequests \cup OtherRequests

\* requests offered at the later request instants
LaterRequests ==
    {Body(JsStr("approveReentry"), Undefined, Undefined),
     Body(JsStr("setPhase"), JsStr("CALM"), Undefined),
     Body(JsStr("setPhase"), JsStr("REENTRY"), Undefined),
     Body(JsStr("setScenario"), Undefined, JsStr("S3")),
     Body(JsStr("setScenario"), Undefined, JsStr("S1")),
     Body(JsStr("clearScenario"), Undefined, Undefined),
     MalformedBody}

\* the ticks after which a request may arrive (one request per instant)
RequestTicks == {0, 15, 60, 240, 265}

Requests == IF TickNo = 0 THEN FirstRequests ELSE LaterRequests

\* the ticks that may draw a non-default random outcome
RandomTicks == {5, 65}

\* fourteen draws that differ from pillar to pillar, both ends of the range
\* among them
DrawsApart ==
    [p \in PillarIds |->
        CASE p = "ARAS" -> Draw(99, 0)
          [] p = "MACRO" -> Draw(0, 99)
          [] p = "MASTER" -> Draw(12, 77)
          [] p = "KEVLAR" -> Draw(77, 12)
          [] p = "PERM" -> Draw(31, 64)
          [] p = "SLOF" -> Draw(64, 31)
          [] p = "ARES" -> Draw(99, 0)]

\* the random outcomes offered to a tick
RandomInputs ==
    IF TickNo + 1 \in RandomTicks
    THEN {NoRandom,
          [NoRandom EXCEPT !.draws["ARAS"] = Draw(90, 50), !.draws["ARES"] = Draw(0, 50)],
          [NoRandom EXCEPT !.draws = [p \in PillarIds |-> Draw(53, 53)]],
          [NoRandom EXCEPT !.draws = DrawsApart],
          [NoRandom EXCEPT !.a1 = TRUE],
          [NoRandom EXCEPT !.a2 = TRUE]}
    ELSE {NoRandom}

\* the ticks during which the clock may advance between two reads
SkewTicks == {30, 45}

\* when the interval fires next
NextFire == StartTime + (TickNo + 1) * TickStep

\* the clock reads offered to a tick that begins at t: a clock that stands
\* still, one that advances by a millisecond right after the first read, and
\* one that advances by a millisecond at every read
ClockInputs(t) ==
    IF TickNo + 1 \in SkewTicks
    THEN {At(t),
          Reads(t, t + 1, t + 1, t + 1, t + 1, t + 1),
          Reads(t, t + 1, t + 2, t + 3, t + 4, t + 5)}
    ELSE {At(t)}

\* the reads of the constructor: a clock that stands still, and one that
\* advances by a millisecond at every read
ConstructionReads ==
    {<<StartTime, StartTime, StartTime>>, <<StartTime - 2, StartTime - 1, StartTime>>}

\* whether tick(e, ., rv) reads a Math.random() outcome other than the default
DrawsRandom(e, rv) ==
    /\ FreeRunning(e)
    /\ \/ rv.draws # NoRandom.draws
       \/ rv.a1 /\ e.phase \in {"BUILD_STRESS", "DELEVERAGE", "ARES_GATES", "REENTRY"}
       \/ rv.a2 /\ e.phase = "BUILD_STRESS"

-----------------------------------------------------------------------------
(* Specification *)

NoArg == <<>>

Init ==
    /\ \E r \in ConstructionReads :
          /\ engine = NewEngine(r[1], r[2], r[3])
          /\ rnd = IF r[1] = r[3] THEN 0 ELSE 1
    /\ now = StartTime
    /\ clk = At(StartTime)
    /\ waiting = 0
    /\ req = NoReq
    /\ resp = NoResp
    /\ ops = <<>>
    /\ last = "Init"
    /\ fin = NoArg
    /\ fout = NoArg

\* budget of external inputs: requests served or waiting for their body, plus
\* ticks with a non-default random or clock outcome
InputBudget == Len(ops) + waiting + rnd < MaxOps

\* the instants at which an input other than the default may arrive
InputTicks == RequestTicks \cup RandomTicks \cup SkewTicks

\* the run is followed further: it may still take an input, or the last
\* input instant is at most HorizonTicks ticks back
Followed ==
    IF InputBudget
    THEN TRUE
    ELSE {k \in InputTicks : k <= TickNo /\ TickNo < k + HorizonTicks} # {}

\* the tick takes an input other than the default
OffDefault(e, rv, c) == DrawsRandom(e, rv) \/ c # At(c.ts)

\* a live interval fires and runs one tick; the clock ends at its last read
Tick ==
    /\ engine.intervals > 0
    /\ NextFire <= MaxTime
    /\ Followed
    /\ \E rv \in RandomInputs, c \in ClockInputs(NextFire) :
        /\ OffDefault(engine, rv, c) => InputBudget /\ rnd < MaxRandom
        /\ rnd' = IF OffDefault(engine, rv, c) THEN rnd + 1 ELSE rnd
        /\ engine' = tick(engine, c, rv)
        /\ clk' = c
        /\ now' = c.exit
    /\ req' = NoReq
    /\ resp' = NoResp
    /\ last' = "Tick"
    /\ UNCHANGED <<waiting, ops, fin, fout>>

\* a request or direct call may be served now
MayServe ==
    /\ InputBudget
    /\ TickNo \in RequestTicks
    /\ \A k \in 1..Len(ops) : ops[k] # now

\* a client posts a control request: the handler calls demoEngine.start()
\* and waits for the body
Accept ==
    /\ MayServe
    /\ waiting < MaxWaiting
    /\ engine' = start(engine)
    /\ waiting' = waiting + 1
    /\ req' = NoReq
    /\ resp' = NoResp
    /\ last' = "Accept"
    /\ UNCHANGED <<now, clk, rnd, ops, fin, fout>>

\* the body of a waiting request has arrived: the handler resumes, dispatches
\* and responds
Control ==
    /\ waiting > 0
    /\ TickNo \in RequestTicks
    /\ \A k \in 1..Len(ops) : ops[k] # now
    /\ \E body \in Requests :
        /\ engine' = Dispatch(engine, body, now).engine
        /\ resp' = Dispatch(engine, body, now).resp
        /\ req' = body
    /\ waiting' = waiting - 1
    /\ ops' = Append(ops, now)
    /\ last' = "Control"
    /\ UNCHANGED <<now, clk, rnd, fin, fout>>

\* a client reads GET /api/snapshot or opens GET /api/stream: both start the
\* engine before reading the snapshot
Read ==
    /\ ~engine.timer
    /\ engine' = start(engine)
    /\ req' = NoReq
    /\ resp' = NoResp
    /\ last' = "Read"
    /\ UNCHANGED <<now, clk, waiting, rnd, ops, fin, fout>>

\* demoEngine.clearScenario() called directly (no route reaches it)
ClearScenario ==
    /\ MayServe
    /\ engine' = clearScenario(engine)
    /\ req' = NoReq
    /\ resp' = NoResp
    /\ ops' = Append(ops, now)
    /\ last' = "ClearScenario"
    /\ UNCHANGED <<now, clk, waiting, rnd, fin, fout>>

\* demoEngine.stop() called directly
Stop ==
    /\ MayServe
    /\ engine.timer
    /\ engine' = stop(engine)
    /\ req' = NoReq
    /\ resp' = NoResp
    /\ ops' = Append(ops, now)
    /\ last' = "Stop"
    /\ UNCHANGED <<now, clk, waiting, rnd, fin, fout>>

Next == Tick \/ Accept \/ Control \/ Read \/ ClearScenario \/ Stop

Spec == Init /\ [][Next]_vars

-----------------------------------------------------------------------------
(* The module aggregator on its own: updateARASModules applied to a fresh
   engine, for the six patches the phase handlers pass and for patches whose
   risk scores are drawn from a grid that holds the spec's examples
   (0.6/0.58, 0.7/0.4), averages one thousandth to either side of 0.5,
   differences a third of a thousandth to either side of 0.15, and averages
   and differences that are exactly 0.5 and 0.15 as decimals *)

\* risk scores of modules 2..6 (array indices 1..5), in thousandths
StressGrid ==
    {<<m2, m3, m4, m5, m6>> :
        m2 \in {0, 100, 600, 700}, m3 \in {100, 400, 580},
        m4 \in {200, 201, 400, 580, 1000}, m5 \in {149, 150, 400, 580, 1000},
        m6 \in {0, 401, 600, 700, 1000}}

\* the patch that writes the drawn risk scores
RiskPatch(x) ==
    <<M(180, FALSE, 880), M(x[1], FALSE, 860), M(x[2], FALSE, 840),
      M(x[3], FALSE, 830), M(x[4], FALSE, 820), M(x[5], FALSE, 800)>>

\* the phases whose handler calls updateARASModules
AggregatingPhases ==
    {"CALM", "BUILD_STRESS", "CIRCUIT_BREAK", "DELEVERAGE", "STABILIZE", "ARES_GATES"}

StressInputs ==
    {RiskPatch(x) : x \in StressGrid} \cup {ModulePatch(p) : p \in AggregatingPhases}

InitStressSource ==
    /\ engine = NewEngine(StartTime, StartTime, StartTime)
    /\ now = StartTime
    /\ clk = At(StartTime)
    /\ waiting = 0
    /\ req = NoReq
    /\ resp = NoResp
    /\ rnd = 0
    /\ ops = <<>>
    /\ last = "Init"
    /\ fin \in StressInputs
    /\ fout = NoArg

\* fout keeps the stress source the aggregator wrote and the binary64
\* evaluation of its rule on the modules it stored
UpdateModules ==
    /\ fout = NoArg
    /\ engine' = updateARASModules(engine, fin)
    /\ fout' = <<engine'.snapshot.stressSource,
                 StressSourceBinary64(engine'.snapshot.arasModules)>>
    /\ last' = "updateARASModules"
    /\ UNCHANGED <<now, clk, waiting, req, resp, rnd, ops, fin>>

NextStressSource == UpdateModules

SpecStressSource == InitStressSource /\ [][NextStressSource]_vars

-----------------------------------------------------------------------------
(* The portfolio allocator on its own: buildPortfolioSnapshot applied to every
   regime and stress source, without a re-entry state and with re-entry
   states over the tranche ceilings of the ladder, the unapproved hold (0.70)
   and the ceiling at which the cash sleeve reaches zero (0.86) *)

ReentryInputs ==
    {NoReentry}
      \cup {[present |-> TRUE, pmApproved |-> a, tranche |-> k, trancheCeiling |-> c] :
               a \in BOOLEAN, k \in 0..4, c \in {250, 500, 700, 750, 860, 1000}}

PortfolioInputs ==
    {[regime |-> r, stressSource |-> src, reentry |-> re] :
        r \in Regimes, src \in StressSources, re \in ReentryInputs}

InitPortfolio ==
    /\ engine = NewEngine(StartTime, StartTime, StartTime)
    /\ now = StartTime
    /\ clk = At(StartTime)
    /\ waiting = 0
    /\ req = NoReq
    /\ resp = NoResp
    /\ rnd = 0
    /\ ops = <<>>
    /\ last = "Init"
    /\ fin \in PortfolioInputs
    /\ fout = NoArg

BuildPortfolio ==
    /\ fout = NoArg
    /\ fout' = <<buildPortfolioSnapshot(fin.regime, fin.stressSource, fin.reentry)>>
    /\ last' = "buildPortfolioSnapshot"
    /\ UNCHANGED <<engine, now, clk, waiting, req, resp, rnd, ops, fin>>

NextPortfolio == BuildPortfolio

SpecPortfolio == InitPortfolio /\ [][NextPortfolio]_vars

-----------------------------------------------------------------------------
(* Properties *)

\* the phase whose handler a tick at instant t runs
PhaseOfTick(e, c) == ScenarioPlayback(e, c).phase

\* the phases whose handler calls updateARASModules
AggregatorPhases == PhaseSet \ {"REENTRY"}

\* C1: at the end of every tick in which the module aggregator ran, in every
\* phase and mode, three or more stress flags imply regime CRASH and an
\* exposure ceiling of at most 0.15.  (Refuted: the free-running
\* CIRCUIT_BREAK handler publishes DEFENSIVE after the override.)
C1_CrashOverrideAtEndOfTick ==
    [][(/\ last' = "Tick"
        /\ PhaseOfTick(engine, clk') \in AggregatorPhases
        /\ StressCount(engine'.snapshot.arasModules) >= CrashFlagCount)
       => (/\ engine'.snapshot.regime = "CRASH"
           /\ engine'.snapshot.exposureCeilingGross <= CrashCeiling)]_vars

\* the re-entry state a snapshot reports
Reentry(e) == e.snapshot.portfolio.reentry

\* C2: while PM approval stays granted with the same approval time, the
\* re-entry tranche of successive snapshots never decreases.  (Refuted: the
\* tranche is derived from the regime and ceiling of whatever phase runs, so
\* an approval given in CALM reports tranche 4 and then tranche 1.)
C2_TrancheNeverDecreases ==
    [][(/\ engine.pmReentryApproved
        /\ engine'.pmReentryApproved
        /\ engine'.pmReentryApprovedAt = engine.pmReentryApprovedAt
        /\ Reentry(engine).present
        /\ Reentry(engine').present)
       => Reentry(engine').tranche >= Reentry(engine).tranche]_vars

\* C3: a snapshot produced by a tick less than 30 s after the approval never
\* reports tranche 4.  (Refuted: outside REENTRY the tranche follows the
\* regime, and regime RISK_ON reads as tranche 4.)
C3_NoTranche4Before30s ==
    (/\ last = "Tick"
     /\ engine.pmReentryApproved
     /\ Reentry(engine).present
     /\ Reentry(engine).pmApproved
     /\ Reentry(engine).tranche = 4)
    => now - engine.pmReentryApprovedAt >= 30000

\* a request that calls setScenario: the setScenario action, or autoDemo
IsSetScenario(r) ==
    /\ r.present
    /\ \/ r.action = JsStr("setScenario") /\ r.scenarioId.type = "string"
       \/ r.action = JsStr("autoDemo")

ApprovalReset(e) == ~e.pmReentryApproved /\ e.pmReentryApprovedAt = 0

\* the engine state setScenario and clearScenario leave behind
ScenarioChangeResets ==
    /\ (last' = "Control" /\ IsSetScenario(req'))
          => (ApprovalReset(engine') /\ engine'.scenarioT0 = now')
    /\ (last' = "ClearScenario") => ApprovalReset(engine')

\* C4 (as amended): setScenario(id), from any state, leaves PM approval false,
\* the approval timestamp cleared and the scenario clock at 0, and
\* clearScenario resets the approval likewise.  The next tick reports tranche 0
\* and unapproved when id is S3; for any other id, and after clearScenario, its
\* snapshot carries no re-entry state at all.
C4_ScenarioChangeResetsApproval ==
    [][/\ ScenarioChangeResets
       /\ (last = "Control" /\ IsSetScenario(req) /\ last' = "Tick")
             => IF engine'.scenarioId = JsStr("S3")
                THEN /\ Reentry(engine').present
                     /\ ~Reentry(engine').pmApproved
                     /\ Reentry(engine').tranche = 0
                ELSE ~Reentry(engine').present
       /\ (last = "ClearScenario" /\ last' = "Tick") => ~Reentry(engine').present]_vars

\* C4 as written: after setScenario(id), for every id, the next tick reports
\* re-entry tranche 0 and unapproved.
C4_NextTickReportsTrancheZero ==
    [][/\ ScenarioChangeResets
       /\ (last = "Control" /\ IsSetScenario(req) /\ last' = "Tick")
             => /\ Reentry(engine').present
                /\ ~Reentry(engine').pmApproved
                /\ Reentry(engine').tranche = 0]_vars

\* C4 witness: the first tick after a setScenario("S3") that found the PM
\* approval granted
C4_Witness ==
    /\ last = "Tick"
    /\ engine.scenarioId = JsStr("S3")
    /\ now - engine.scenarioT0 = TickStep
    /\ \E i \in DOMAIN engine.snapshot.alerts :
          engine.snapshot.alerts[i].title = <<"Re-entry approved (PM)">>
    /\ ApprovalReset(engine)
    /\ Reentry(engine).present
    /\ Reentry(engine).tranche = 0

\* the alerts of log `alerts` created after the alert numbered seq
RECURSIVE AlertsSince(_, _)
AlertsSince(alerts, seq) ==
    IF alerts = <<>> \/ Head(alerts).seq <= seq THEN <<>>
    ELSE <<Head(alerts)>> \o AlertsSince(Tail(alerts), seq)

IsCrashOverrideAlert(a) == a.severity = "critical" /\ a.title = <<"ARAS", "crash override">>

IsStressFlagAlert(a) == Len(a.title) = 4 /\ a.title[1] = "ARAS" /\ a.title[3] = "stress_flag"

CountCrashOverrideAlerts(alerts) ==
    Cardinality({i \in DOMAIN alerts : IsCrashOverrideAlert(alerts[i])})

CountStressFlagAlerts(alerts) ==
    Cardinality({i \in DOMAIN alerts : IsStressFlagAlert(alerts[i])})

\* a snapshot with regime RISK_ON and no stress flag set, as CALM publishes
CalmSnapshot(e) ==
    e.snapshot.regime = "RISK_ON" /\ StressCount(e.snapshot.arasModules) = 0

\* the tick at instant t runs the aggregator with a patch setting n flags
PatchSetsFlags(e, t, n) ==
    /\ PhaseOfTick(e, t) \in AggregatorPhases
    /\ StressCount(ModulePatch(PhaseOfTick(e, t))) = n

\* C5: from a snapshot with regime RISK_ON and no stress flag, a tick whose
\* module patch sets 4 of the 6 flags ends with regime CRASH and ceiling
\* <= 0.15, and appends exactly one critical "crash override" alert and
\* exactly four stress-flag alerts.
C5_FourFlagsCrashInOneTick ==
    [][(/\ last' = "Tick"
        /\ CalmSnapshot(engine)
        /\ PatchSetsFlags(engine, clk', 4))
       => (/\ engine'.snapshot.regime = "CRASH"
           /\ engine'.snapshot.exposureCeilingGross <= CrashCeiling
           /\ CountCrashOverrideAlerts(AlertsSince(engine'.snapshot.alerts, engine.alertSeq)) = 1
           /\ CountStressFlagAlerts(AlertsSince(engine'.snapshot.alerts, engine.alertSeq)) = 4)]_vars

\* C5 witness: the end of the first stressed tick: four flags set, regime
\* CRASH, and the whole log holding four stress-flag alerts and one crash
\* override alert
C5_Witness ==
    /\ last = "Tick"
    /\ engine.phase = "BUILD_STRESS"
    /\ StressCount(engine.snapshot.arasModules) = 4
    /\ engine.snapshot.regime = "CRASH"
    /\ engine.alertSeq <= AlertCap
    /\ CountStressFlagAlerts(engine.snapshot.alerts) = 4
    /\ CountCrashOverrideAlerts(engine.snapshot.alerts) = 1

InUnit(x) == 0 <= x /\ x <= 1000

\* the same for a number counted in ten-thousandths
FineInUnit(x) == 0 <= x /\ x <= Fine(1000)

SignalsInUnit(sigs) ==
    \A i \in DOMAIN sigs : InUnit(sigs[i].score) /\ InUnit(sigs[i].confidence)

\* C6: in every reachable snapshot every module, pillar-signal and pillar
\* score and confidence lies in [0,1] and the exposure ceiling in [0,1.2].
C6_ScoresAndCeilingInRange ==
    /\ \A i \in DOMAIN engine.snapshot.arasModules :
          /\ InUnit(engine.snapshot.arasModules[i].risk_score)
          /\ InUnit(engine.snapshot.arasModules[i].confidence)
    /\ \A k \in DOMAIN SignalKeys : SignalsInUnit(engine.snapshot[SignalKeys[k]])
    /\ \A p \in PillarIds :
          /\ FineInUnit(engine.snapshot.pillars[p].score)
          /\ FineInUnit(engine.snapshot.pillars[p].confidence)
    /\ 0 <= engine.snapshot.exposureCeilingGross
    /\ engine.snapshot.exposureCeilingGross <= 1200

\* C6 witness: the circuit breaker's composite, 1.5 times a weighted mean of
\* risk scores above 0.67, is stored clamped to 1
C6_Witness ==
    /\ last = "Tick"
    /\ StressCount(engine.snapshot.arasModules) = 6
    /\ WeightedRisk2(engine.snapshot.arasModules)
          > 2 * 1000 * SumConfidence(engine.snapshot.arasModules)
    /\ engine.snapshot.pillars["ARAS"].score = Fine(1000)

\* C7: the alert log holds at most 200 entries, the most recently appended
\* alert is at index 0, and a full log drops only its oldest entry: the log
\* is always the most recent min(n, 200) of the n alerts created, newest first.
C7_AlertLogCappedNewestFirst ==
    /\ Len(engine.snapshot.alerts) <= AlertCap
    /\ Len(engine.snapshot.alerts) = Min(engine.alertSeq, AlertCap)
    /\ \A i \in DOMAIN engine.snapshot.alerts :
          engine.snapshot.alerts[i].seq = engine.alertSeq - i + 1

\* C7 witness: a full log that has dropped at least its first entry
C7_Witness ==
    /\ Len(engine.snapshot.alerts) = AlertCap
    /\ engine.alertSeq > AlertCap
    /\ engine.snapshot.alerts[AlertCap].seq > 1

\* risk scores of modules 2..6 of a patch
Scores(patch) ==
    <<patch[2].risk_score, patch[3].risk_score, patch[4].risk_score,
      patch[5].risk_score, patch[6].risk_score>>

\* the reference rule on cryptoAvg = (m2 + m6) / 2 and equityAvg =
\* (m3 + m4 + m5) / 3 in exact arithmetic, the comparisons of rationals
\* cross-multiplied
ReferenceStressSource(x) ==
    LET c2 == x[1] + x[5]
        e3 == x[2] + x[3] + x[4]
    IN IF 1000 < c2 /\ 1500 < e3 /\ 3 * c2 - 2 * e3 <= 900 /\ 2 * e3 - 3 * c2 <= 900
       THEN "CORRELATED"
       ELSE IF 3 * c2 - 2 * e3 > 900 THEN "CRYPTO"
       ELSE IF 2 * e3 - 3 * c2 > 900 THEN "EQUITY"
       ELSE "GENERAL"

\* the decimal averages are exactly 0.15 apart.  0.15 is not a binary64
\* number: the code compares the rounded difference of the rounded averages
\* with the binary64 nearest to 0.15, so for these scores the side the
\* comparison falls on is decided by rounding and not by the rule
ExactTie(x) ==
    LET c2 == x[1] + x[5]
        e3 == x[2] + x[3] + x[4]
    IN Abs(3 * c2 - 2 * e3) = 900

StoredLevels(sigs) == {sigs[i].level : i \in DOMAIN sigs}

\* the level a score stands for: RISK from 0.70, WATCH from 0.45, else OK
LevelsMatchScores(sigs) ==
    \A i \in DOMAIN sigs :
        /\ sigs[i].level = "RISK" <=> sigs[i].score >= 700
        /\ sigs[i].level = "WATCH" <=> sigs[i].score >= 450 /\ sigs[i].score < 700
        /\ sigs[i].level = "OK" <=> sigs[i].score < 450

PillarRollsUp(e, key) ==
    /\ LevelsMatchScores(e.snapshot[key])
    /\ e.snapshot.pillars[pillarByKey(key)].status = "TRIGGERED"
          <=> "RISK" \in StoredLevels(e.snapshot[key])
    /\ e.snapshot.pillars[pillarByKey(key)].status = "ACTIVE"
          <=> "RISK" \notin StoredLevels(e.snapshot[key])
                /\ "WATCH" \in StoredLevels(e.snapshot[key])
    /\ e.snapshot.pillars[pillarByKey(key)].status = "OK"
          <=> StoredLevels(e.snapshot[key]) \subseteq {"OK"}

\* C9: at the end of every tick each of the five signal pillars (MACRO,
\* MASTER, KEVLAR, PERM, SLOF) has status TRIGGERED iff one of its stored
\* sub-signals has level RISK, ACTIVE iff none is RISK and one is WATCH, and
\* OK otherwise, a sub-signal's level being RISK for score >= 0.70, WATCH for
\* score >= 0.45, else OK.
C9_PillarStatusRollsUpSignals ==
    last = "Tick" => \A k \in DOMAIN SignalKeys : PillarRollsUp(engine, SignalKeys[k])

\* C9 witness: a tick has left one pillar TRIGGERED though it also holds a
\* WATCH sub-signal, and another ACTIVE though it also holds an OK sub-signal
C9_Witness ==
    /\ last = "Tick"
    /\ \E k \in DOMAIN SignalKeys :
          /\ engine.snapshot.pillars[pillarByKey(SignalKeys[k])].status = "TRIGGERED"
          /\ "WATCH" \in StoredLevels(engine.snapshot[SignalKeys[k]])
    /\ \E k \in DOMAIN SignalKeys :
          /\ engine.snapshot.pillars[pillarByKey(SignalKeys[k])].status = "ACTIVE"
          /\ "OK" \in StoredLevels(engine.snapshot[SignalKeys[k]])

\* C10: a control request whose action is not recognised, or whose body is
\* malformed, gets the explicit failure response and leaves the engine as it
\* was: phase, dwell clock, scenario, approval state, alert log and the rest
\* of the snapshot are unchanged (start() may have started the timer).
C10_UnrecognizedRequestRejected ==
    [][last' = "Control" /\ ~Recognized(req')
         => /\ resp' = RespUnknown
            /\ [engine' EXCEPT !.timer = engine.timer,
                                !.intervals = engine.intervals] = engine]_vars

\* C10 witness: a malformed request was refused while a scenario was playing
\* and alerts were in the log
C10_Witness ==
    /\ last = "Control"
    /\ req = MalformedBody
    /\ ~Recognized(req)
    /\ resp = RespUnknown
    /\ engine.scenarioId # Null
    /\ engine.phase # "CALM"
    /\ Len(engine.snapshot.alerts) > 0

\* a setPhase request naming no defined phase, or a setScenario request
\* naming no defined scenario
NamesUnknownPhase(r) ==
    r.present /\ r.action = JsStr("setPhase") /\ r.phase.type = "string"
        /\ r.phase.val \notin PhaseSet

NamesUnknownScenario(r) ==
    r.present /\ r.action = JsStr("setScenario") /\ r.scenarioId.type = "string"
        /\ r.scenarioId.val \notin ScenarioIds

\* C11: a setPhase request naming a phase outside the seven, or a setScenario
\* request naming an id outside S1/S2/S3, gets a failure response and leaves
\* the engine's phase and scenario as they were.  (Refuted: the route checks
\* only that the name is a string and the engine stores it.)
C11_UnknownNameRejected ==
    [][(last' = "Control" /\ (NamesUnknownPhase(req') \/ NamesUnknownScenario(req')))
         => /\ ~resp'.ok
            /\ engine'.phase = engine.phase
            /\ engine'.scenarioId = engine.scenarioId]_vars

\* a control request asking to clear the scenario
IsClearScenario(r) == r.present /\ r.action = JsStr("clearScenario")

\* C12: whenever a scripted scenario is active, a clear-scenario control
\* request is acknowledged with success and returns the engine to
\* free-running mode: no scenario, approval reset, one info alert appended.
\* (Refuted: the control route has no clearScenario action and answers
\* 'Unknown action'; Engine.clearScenario is reachable by no request.)
C12_ClearScenarioRequestClears ==
    [][(last' = "Control" /\ IsClearScenario(req') /\ Truthy(engine.scenarioId))
         => /\ resp'.ok
            /\ ~Truthy(engine'.scenarioId)
            /\ ApprovalReset(engine')
            /\ engine'.alertSeq = engine.alertSeq + 1
            /\ engine'.snapshot.alerts[1].severity = "info"]_vars

\* a control request that approves the re-entry
IsApproveReentry(r) == r.present /\ r.action = JsStr("approveReentry")

\* C13: approveReentry invoked while no scenario is active has no effect: the
\* approval flag and the alert log stay as they were.  (Refuted: the call
\* sets the flag and its timestamp and appends a watch alert unconditionally.)
C13_ApproveWithoutScenarioNoEffect ==
    [][(last' = "Control" /\ IsApproveReentry(req') /\ ~Truthy(engine.scenarioId))
         => /\ engine'.pmReentryApproved = engine.pmReentryApproved
            /\ engine'.pmReentryApprovedAt = engine.pmReentryApprovedAt
            /\ engine'.snapshot.alerts = engine.snapshot.alerts]_vars

\* a setPhase request naming one of the seven phases
IsSetPhase(r) ==
    r.present /\ r.action = JsStr("setPhase") /\ r.phase.type = "string"
        /\ r.phase.val \in PhaseSet

\* minimum dwell of a free-running phase, in ms: the handler leaves the phase
\* once its age exceeds it; CIRCUIT_BREAK is left by its first tick
MinDwell(phase) ==
    CASE phase = "CALM" -> 18000
      [] phase = "BUILD_STRESS" -> 25000
      [] phase = "CIRCUIT_BREAK" -> 0
      [] phase = "DELEVERAGE" -> 18000
      [] phase = "STABILIZE" -> 20000
      [] phase = "ARES_GATES" -> 25000
      [] phase = "REENTRY" -> 25000

\* the signal tables of phase p are what the snapshot holds
HandlerRan(e, p) ==
    \A k \in DOMAIN SignalKeys :
        e.snapshot[SignalKeys[k]] = NormalizeAll(PhaseSignals(p, SignalKeys[k]))

\* C14: in free-running mode setPhase(p), p one of the seven phases, makes p
\* the active phase at once, restarts its dwell clock and appends exactly one
\* info alert; the next tick runs p's handler; and a free-running tick leaves
\* a phase only when more than its minimum dwell has elapsed since the dwell
\* clock was last restarted.
C14_SetPhaseForcesPhase ==
    [][/\ (last' = "Control" /\ IsSetPhase(req') /\ FreeRunning(engine))
            => /\ resp' = RespOk
               /\ engine'.phase = req'.phase.val
               /\ engine'.phaseT0 = now'
               /\ engine'.alertSeq = engine.alertSeq + 1
               /\ engine'.snapshot.alerts[1].severity = "info"
               /\ Tail(engine'.snapshot.alerts) = Take(engine.snapshot.alerts, AlertCap - 1)
       /\ (last = "Control" /\ IsSetPhase(req) /\ FreeRunning(engine) /\ last' = "Tick")
            => HandlerRan(engine', req.phase.val)
       /\ (last' = "Tick" /\ FreeRunning(engine) /\ engine.phase \in PhaseSet
              /\ engine'.phase # engine.phase)
            => /\ clk'.phase - engine.phaseT0 > MinDwell(engine.phase)
               /\ engine'.phaseT0 = now']_vars

\* C14 witness: a free-running tick has just left, by its dwell transition, a
\* phase that a setPhase request had forced
C14_Witness ==
    /\ last = "Tick"
    /\ FreeRunning(engine)
    /\ engine.phase = "STABILIZE"
    /\ engine.phaseT0 = now
    /\ \E i \in DOMAIN engine.snapshot.alerts :
          engine.snapshot.alerts[i].title = <<"Phase", "DELEVERAGE">>
    /\ ~\E i \in DOMAIN engine.snapshot.alerts :
          engine.snapshot.alerts[i].title = <<"Phase", "BUILD_STRESS">>

\* the log holds the alert of autoDemo, and setScenario was not called since
AutoDemoPlaying(e) ==
    /\ e.scenarioId = JsStr("S3")
    /\ \E i \in DOMAIN e.snapshot.alerts :
          /\ e.snapshot.alerts[i].title = <<"AUTO-DEMO started">>
          /\ \A j \in 1..(i - 1) : e.snapshot.alerts[j].title[1] # "Scenario"

\* C15: after autoDemo the engine plays S3 and cycles with no further input:
\* REENTRY is left again and CALM re-entered.  Stated with a deadline: one
\* REENTRY dwell time after the timeline reached REENTRY (104 s), the phase
\* is no longer REENTRY.  (Refuted: scenarioPhaseFor returns REENTRY for every
\* age from 104 s on, and dwell transitions are off while a scenario plays.)
C15_AutoDemoCycles ==
    (/\ last = "Tick"
     /\ AutoDemoPlaying(engine)
     /\ now - engine.scenarioT0 >= 104000 + MinDwell("REENTRY"))
    => engine.phase # "REENTRY"

\* C16: after any sequence of start() and stop() calls at most one tick timer
\* exists: the runtime holds one live interval exactly when the engine is
\* started and none otherwise, so a start() while running adds no second
\* timer, and a tick executes only while the engine is started (never
\* between a stop() and the next start()).
C16_AtMostOneTimer ==
    [][/\ engine'.intervals <= 1
       /\ engine'.timer <=> engine'.intervals = 1
       /\ (last' = "Tick") => engine.timer
       /\ (last' = "Stop") => engine'.intervals = 0
       /\ (last' = "Accept" /\ engine.timer) => engine'.intervals = engine.intervals]_vars

\* C16 witness: a request called start() while the timer, started by an
\* earlier request, was running and had fired ticks
C16_Witness ==
    /\ last = "Accept"
    /\ engine.timer
    /\ engine.intervals = 1
    /\ now > StartTime
    /\ ops = <<>>

-----------------------------------------------------------------------------
(* Readers: the tick taken apart into the stages of its body, so that a read
   between two stages is a state of the model; whether a read can happen
   there is decided by whether tick() ever yields to the event loop.  fin
   keeps the stage the tick has reached (0 between two ticks), the random
   outcomes of the tick in progress, and the engine as the last completed
   tick (or the construction) left it. *)

\* tick() and the engine methods it calls contain no await and no callback:
\* the tick callback runs to completion before any other handler runs
TickYieldsBetweenStages == TRUE

TickYields == FALSE

\* stage of the tick on the stack, 0 when there is none
TickStage == fin[1]

\* handlers other than the tick callback run when no tick is on the stack
MayRunHandler == IF TickYields THEN TRUE ELSE TickStage = 0

\* the engine as the GET handler that opened a stream left it: constructed
\* and started
InitReaders ==
    /\ engine = start(NewEngine(StartTime, StartTime, StartTime))
    /\ now = StartTime
    /\ clk = At(StartTime)
    /\ waiting = 0
    /\ req = NoReq
    /\ resp = NoResp
    /\ rnd = 0
    /\ ops = <<>>
    /\ last = "Init"
    /\ fin = <<0, NoRandom, engine>>
    /\ fout = NoArg

\* const t = now(); this.snapshot.ts = t; scenario playback
BeginTick ==
    /\ TickStage = 0
    /\ engine.intervals > 0
    /\ NextFire <= ReadersMaxTime
    /\ \E rv \in RandomInputs, c \in ClockInputs(NextFire) :
        /\ OffDefault(engine, rv, c) => InputBudget /\ rnd < MaxRandom
        /\ rnd' = IF OffDefault(engine, rv, c) THEN rnd + 1 ELSE rnd
        /\ fin' = <<1, rv, fin[3]>>
        /\ engine' = ScenarioPlayback([engine EXCEPT !.snapshot.ts = c.ts], c)
        /\ clk' = c
        /\ now' = c.exit
    /\ req' = NoReq
    /\ resp' = NoResp
    /\ fout' = NoArg
    /\ last' = "BeginTick"
    /\ UNCHANGED <<waiting, ops>>

DriftStage ==
    /\ TickStage = 1
    /\ engine' = Drift(engine, fin[2])
    /\ fin' = [fin EXCEPT ![1] = 2]
    /\ last' = "DriftStage"
    /\ UNCHANGED <<now, clk, waiting, req, resp, rnd, ops, fout>>

HandlerStage ==
    /\ TickStage = 2
    /\ engine' = PhaseHandler(engine, clk, fin[2])
    /\ fin' = [fin EXCEPT ![1] = 3]
    /\ last' = "HandlerStage"
    /\ UNCHANGED <<now, clk, waiting, req, resp, rnd, ops, fout>>

EndTick ==
    /\ TickStage = 3
    /\ engine' = PublishPortfolio(engine)
    /\ fin' = <<0, NoRandom, engine'>>
    /\ last' = "EndTick"
    /\ UNCHANGED <<now, clk, waiting, req, resp, rnd, ops, fout>>

\* GET /api/snapshot: start(), then the snapshot is serialised in the handler
ReadSnapshot ==
    /\ MayRunHandler
    /\ fout = NoArg
    /\ engine' = start(engine)
    /\ fout' = <<engine'.snapshot>>
    /\ last' = "ReadSnapshot"
    /\ UNCHANGED <<now, clk, waiting, req, resp, rnd, ops, fin>>

\* a publication of an open stream: the interval callback serialises
\* getSnapshot() and calls nothing else
PublishSnapshot ==
    /\ MayRunHandler
    /\ fout = NoArg
    /\ fout' = <<engine.snapshot>>
    /\ last' = "PublishSnapshot"
    /\ UNCHANGED <<engine, now, clk, waiting, req, resp, rnd, ops, fin>>

AcceptBetweenTicks == MayRunHandler /\ Accept

ControlBetweenTicks == MayRunHandler /\ Control

NextReaders ==
    \/ BeginTick \/ DriftStage \/ HandlerStage \/ EndTick
    \/ ReadSnapshot \/ PublishSnapshot \/ AcceptBetweenTicks \/ ControlBetweenTicks

SpecReaders == InitReaders /\ [][NextReaders]_vars

\* the portfolio of a snapshot was built from the regime and stress source
\* the snapshot shows
PortfolioSettled(s) ==
    s.portfolio.present
        => s.portfolio.regime = s.regime /\ s.portfolio.stressSource = s.stressSource

\* what a tick writes of a snapshot: every field but the alert log, which
\* control operations append to as well
TickWrites(s) == [k \in DOMAIN s \ {"alerts"} |-> s[k]]

\* C17: under any interleaving of ticks, control operations, pull reads and
\* stream publications, every snapshot a reader obtains is the engine state
\* at a tick boundary: its timestamp, scenario fields, regime, ceiling,
\* stress source, modules, signals, pillars, gates and portfolio are those
\* the last completed tick (or the construction) left, whatever control
\* operations ran since, and its portfolio matches its regime and stress
\* source; never those of a tick that has applied only part of its writes.
C17_ReadersSeeWholeTicks ==
    [][(last' \in {"ReadSnapshot", "PublishSnapshot"})
          => /\ TickWrites(fout'[1]) = TickWrites(fin[3].snapshot)
             /\ PortfolioSettled(fout'[1])]_vars

\* C17 witness: a stream publication sent the snapshot of a tick that changed
\* the regime, after a control operation that ran since that tick
C17_Witness ==
    /\ last = "PublishSnapshot"
    /\ fout # NoArg
    /\ fout[1].ts = clk.ts
    /\ fout[1].portfolio.present
    /\ fout[1].regime = "CRASH"
    /\ fout[1].alerts # fin[3].snapshot.alerts

\* C18: in every reachable snapshot the pillar mapping holds exactly the seven
\* fixed pillar ids (ARAS, MACRO, MASTER, KEVLAR, PERM, SLOF, ARES): no tick
\* and no control operation adds or removes a pillar.
C18_ExactlySevenPillars ==
    /\ DOMAIN engine.snapshot.pillars = PillarIds
    /\ Cardinality(DOMAIN engine.snapshot.pillars) = 7

\* C18 witness: ticks and a request have rewritten the pillars, the signal
\* pillars from their signals and ARES and ARAS by their handlers
C18_Witness ==
    /\ last = "Tick"
    /\ Len(ops) > 0
    /\ engine.snapshot.pillars["MACRO"].status = "TRIGGERED"
    /\ engine.snapshot.pillars["SLOF"].status = "TRIGGERED"
    /\ engine.snapshot.pillars["ARAS"].status = "TRIGGERED"
    /\ engine.snapshot.pillars["ARES"].status = "SUSPENDED"

\* C19: while one scripted scenario stays active (same id, same start), no
\* gate that is PASS in a snapshot a tick of this scenario produced is WAIT
\* in a later one, whatever ticks and control operations come between.  (Refuted: a setPhase request during
\* playback restarts the dwell clock the gate tests read, so the next tick
\* publishes WAIT for a gate that had passed.)
C19_GatesNeverRegress ==
    [][(/\ Truthy(engine.scenarioId)
        /\ engine.snapshot.scenarioId = engine.scenarioId
        /\ engine.snapshot.ts > engine.scenarioT0
        /\ engine'.scenarioId = engine.scenarioId
        /\ engine'.scenarioT0 = engine.scenarioT0)
       => \A g \in DOMAIN engine.snapshot.aresGates :
             engine.snapshot.aresGates[g] = "PASS"
                => engine'.snapshot.aresGates[g] = "PASS"]_vars

\* random outcomes at both ends: every probabilistic alert drawn, the drift
\* at either end of its range
ExtremeRandom ==
    {[draws |-> [p \in PillarIds |-> Draw(0, 99)], a1 |-> TRUE, a2 |-> TRUE],
     [draws |-> DrawsApart, a1 |-> TRUE, a2 |-> TRUE]}

\* C20: while a scripted scenario is active a tick makes no random choice:
\* its outcome is the same whatever Math.random() returns (no probabilistic
\* alert, no drift), and it leaves unchanged the score and confidence of the
\* pillars the phase handler does not rewrite: ARES in every phase, ARAS in
\* REENTRY.  Drift is applied only when no scenario is active.
C20_PlaybackDrawsNoRandom ==
    [][(last' = "Tick" /\ Truthy(engine.scenarioId))
         => /\ \A rv \in ExtremeRandom : tick(engine, clk', rv) = engine'
            /\ engine'.snapshot.pillars["ARES"].score = engine.snapshot.pillars["ARES"].score
            /\ engine'.snapshot.pillars["ARES"].confidence
                  = engine.snapshot.pillars["ARES"].confidence
            /\ (engine'.phase = "REENTRY" /\ engine.phase = "REENTRY")
                  => engine'.snapshot.pillars["ARAS"].score
                        = engine.snapshot.pillars["ARAS"].score]_vars

\* C20 witness: a tick of S3 playback in BUILD_STRESS, at an instant where
\* random outcomes were on offer, has kept the ARES score that drift had
\* moved before the scenario began
C20_Witness ==
    /\ last = "Tick"
    /\ engine.scenarioId = JsStr("S3")
    /\ engine.phase = "BUILD_STRESS"
    /\ TickNo \in RandomTicks
    /\ rnd = 1
    /\ engine.snapshot.pillars["ARES"].score # Fine(200)

\* what the replay claim compares: everything a snapshot shows but its time
\* stamps, scenario clock and alert log
ReplayView(e) ==
    [regime |-> e.snapshot.regime,
     ceiling |-> e.snapshot.exposureCeilingGross,
     stressSource |-> e.snapshot.stressSource,
     modules |-> e.snapshot.arasModules,
     gates |-> e.snapshot.aresGates,
     signals |-> [k \in DOMAIN SignalKeys |-> e.snapshot[SignalKeys[k]]],
     pillars |-> e.snapshot.pillars,
     portfolio |-> e.snapshot.portfolio]

\* the scenario id a setScenario or autoDemo request selects
ScenarioOf(r) == IF r.action = JsStr("autoDemo") THEN JsStr("S3") ELSE r.scenarioId

\* C21: scripted playback is replayable: the first tick after a scenario is
\* set shows the same regime, ceiling, stress source, modules, gates, pillar
\* signals, pillar summaries and portfolio as the first tick of a copy with no
\* free-running history in which the same scenario was set, the tick coming
\* at the same elapsed time.  (Refuted: the ARES pillar keeps the score and
\* confidence that free-running drift left, no handler rewrites them.)
C21_PlaybackReplayable ==
    [][(last = "Control" /\ IsSetScenario(req) /\ last' = "Tick")
         => ReplayView(engine')
              = ReplayView(tick(setScenario(start(NewEngine(now, now, now)), ScenarioOf(req), now),
                                clk', NoRandom))]_vars

\* C22: in every mode, a tick that runs the REENTRY handler while the PM
\* approval is not granted ends with the fixed intermediate ceiling (that of
\* NEUTRAL) and with a regime other than RISK_ON.  (Refuted: only S3 holds
\* the re-entry; every other mode publishes RISK_ON at 0.85.)
C22_ReentryHeldUntilApproval ==
    [][(last' = "Tick" /\ PhaseOfTick(engine, clk') = "REENTRY" /\ ~engine.pmReentryApproved)
         => /\ engine'.snapshot.regime # "RISK_ON"
            /\ engine'.snapshot.exposureCeilingGross = SPEC_CEILINGS("NEUTRAL")]_vars

\* the tick appended a 'Phase' alert, which every setPhase call does
PhaseAlertSince(e, seq) ==
    \E i \in DOMAIN e.snapshot.alerts :
        e.snapshot.alerts[i].seq > seq /\ e.snapshot.alerts[i].title[1] = "Phase"

\* C23: while a scenario is active, every tick runs the handler of the phase
\* computed from the scenario id and the elapsed time, whatever the dwell
\* clock says and whatever setPhase calls came since the previous tick, and no
\* dwell transition fires: the tick calls no setPhase and ends in the computed
\* phase (the CIRCUIT_BREAK handler hands over to DELEVERAGE for the time
\* between ticks, and the next tick forces the computed phase again).
C23_PlaybackForcesComputedPhase ==
    [][(last' = "Tick" /\ Truthy(engine.scenarioId))
         => /\ PhaseOfTick(engine, clk')
                 = scenarioPhaseFor(engine.scenarioId, clk'.scenario - engine.scenarioT0)
            /\ HandlerRan(engine', scenarioPhaseFor(engine.scenarioId, clk'.scenario - engine.scenarioT0))
            /\ engine'.snapshot.scenarioStep
                 = JsStr(scenarioPhaseFor(engine.scenarioId, clk'.scenario - engine.scenarioT0))
            /\ ~PhaseAlertSince(engine', engine.alertSeq)
            /\ engine'.phase
                 = IF scenarioPhaseFor(engine.scenarioId, clk'.scenario - engine.scenarioT0) = "CIRCUIT_BREAK"
                   THEN "DELEVERAGE"
                   ELSE scenarioPhaseFor(engine.scenarioId, clk'.scenario - engine.scenarioT0)]_vars

\* C23 witness: during the ARES_GATES stage of S3 a setPhase request named
\* CALM, and the next tick ran the ARES_GATES handler all the same
C23_Witness ==
    /\ last = "Tick"
    /\ engine.scenarioId = JsStr("S3")
    /\ engine.phase = "ARES_GATES"
    /\ engine.phaseT0 = now
    /\ engine.snapshot.alerts[1].title = <<"Phase", "CALM">>
    /\ HandlerRan(engine, "ARES_GATES")

\* the 'Scenario step' alerts appended since alert number seq
StepAlertsSince(e, seq) ==
    {i \in DOMAIN e.snapshot.alerts :
        e.snapshot.alerts[i].seq > seq /\ e.snapshot.alerts[i].title[1] = "Scenario step"}

\* the snapshot was produced by a tick of the scenario now active
InPlayback(e) == e.snapshot.ts > e.scenarioT0

\* C24: while one scenario stays active, a tick appends exactly one 'Scenario
\* step' alert, naming the computed phase, when the computed phase differs
\* from that of the previous tick or the tick is the first since the scenario
\* was set, and none when the computed phase is that of the previous tick.
C24_OneStepAlertPerChange ==
    [][(last' = "Tick" /\ Truthy(engine.scenarioId))
         => IF ~InPlayback(engine)
               \/ engine.snapshot.scenarioStep
                     # JsStr(scenarioPhaseFor(engine.scenarioId, clk'.scenario - engine.scenarioT0))
            THEN /\ Cardinality(StepAlertsSince(engine', engine.alertSeq)) = 1
                 /\ \A i \in StepAlertsSince(engine', engine.alertSeq) :
                       engine'.snapshot.alerts[i].title[2]
                          = scenarioPhaseFor(engine.scenarioId, clk'.scenario - engine.scenarioT0)
            ELSE StepAlertsSince(engine', engine.alertSeq) = {}]_vars

\* C24 witness: a tick of S3 well inside BUILD_STRESS appended no step alert,
\* the log holding the step alerts of CALM and of BUILD_STRESS
C24_Witness ==
    /\ last = "Tick"
    /\ engine.scenarioId = JsStr("S3")
    /\ engine.phase = "BUILD_STRESS"
    /\ now - engine.phaseT0 >= 2 * TickStep
    /\ StepAlertsSince(engine, engine.alertSeq - 1) = {}
    /\ \E i, j \in DOMAIN engine.snapshot.alerts :
          /\ engine.snapshot.alerts[i].title = <<"Scenario step", "CALM">>
          /\ engine.snapshot.alerts[j].title = <<"Scenario step", "BUILD_STRESS">>

\* the phase that follows p in the fixed cycle
CycleSuccessor(p) ==
    CASE p = "CALM" -> "BUILD_STRESS"
      [] p = "BUILD_STRESS" -> "CIRCUIT_BREAK"
      [] p = "CIRCUIT_BREAK" -> "DELEVERAGE"
      [] p = "DELEVERAGE" -> "STABILIZE"
      [] p = "STABILIZE" -> "ARES_GATES"
      [] p = "ARES_GATES" -> "REENTRY"
      [] p = "REENTRY" -> "CALM"
      [] OTHER -> p

\* C25: in free-running mode a tick that changes the phase moves it to the
\* successor in the cycle CALM -> BUILD_STRESS -> CIRCUIT_BREAK -> DELEVERAGE
\* -> STABILIZE -> ARES_GATES -> REENTRY -> CALM, announced by one 'Phase'
\* alert naming the successor; no tick skips a phase or moves backwards.
C25_TickMovesToSuccessor ==
    [][(last' = "Tick" /\ FreeRunning(engine) /\ engine'.phase # engine.phase)
         => /\ engine'.phase = CycleSuccessor(engine.phase)
            /\ \E i \in DOMAIN engine'.snapshot.alerts :
                  /\ engine'.snapshot.alerts[i].seq > engine.alertSeq
                  /\ engine'.snapshot.alerts[i].title = <<"Phase", CycleSuccessor(engine.phase)>>]_vars

\* C25 witness: a free-running tick has closed the cycle, from REENTRY to CALM
C25_Witness ==
    /\ last = "Tick"
    /\ FreeRunning(engine)
    /\ engine.phase = "CALM"
    /\ engine.phaseT0 = now
    /\ engine.snapshot.regime = "RISK_ON"
    /\ HandlerRan(engine, "REENTRY")
    /\ engine.snapshot.alerts[1].title = <<"Phase", "CALM">>

\* C26: in free-running mode a tick leaves a phase other than CIRCUIT_BREAK
\* only when the time since the phase was entered exceeds its minimum dwell
\* (CALM 18 s, BUILD_STRESS 25 s, DELEVERAGE 18 s, STABILIZE 20 s, ARES_GATES
\* 25 s, REENTRY 25 s); a tick that finds CIRCUIT_BREAK runs its handler and
\* leaves for DELEVERAGE, so no tick ends in a CIRCUIT_BREAK it did not enter.
C26_DwellBeforeLeaving ==
    [][(last' = "Tick" /\ FreeRunning(engine))
         => /\ (engine.phase \in PhaseSet \ {"CIRCUIT_BREAK"} /\ engine'.phase # engine.phase)
                 => clk'.phase - engine.phaseT0 > MinDwell(engine.phase)
            /\ engine.phase = "CIRCUIT_BREAK"
                 => /\ HandlerRan(engine', "CIRCUIT_BREAK")
                    /\ engine'.phase = "DELEVERAGE"
                    /\ engine'.phaseT0 = now'
            /\ engine'.phase = "CIRCUIT_BREAK"
                 => /\ engine.phase = "BUILD_STRESS"
                    /\ HandlerRan(engine', "BUILD_STRESS")
                    /\ engine'.phaseT0 = now']_vars

\* C26 witness: DELEVERAGE, entered by the one tick of CIRCUIT_BREAK, is still
\* the phase after a tick at exactly its minimum dwell of 18 s
C26_Witness ==
    /\ last = "Tick"
    /\ FreeRunning(engine)
    /\ engine.phase = "DELEVERAGE"
    /\ now - engine.phaseT0 = MinDwell("DELEVERAGE")
    /\ HandlerRan(engine, "DELEVERAGE")
    /\ \E i \in DOMAIN engine.snapshot.alerts :
          engine.snapshot.alerts[i].title = <<"Circuit breaker: intraday deleverage">>

\* the longest minimum dwell of the cycle
LongestDwell == MinDwell("REENTRY")

\* C27: in free-running mode, with the timer running, the phase machine never
\* gets stuck: a tick that finds a phase held for longer than the longest
\* minimum dwell leaves it, so every phase is eventually left and the cycle
\* comes back to CALM.
C27_PhaseNeverStuck ==
    [][(last' = "Tick" /\ FreeRunning(engine) /\ clk'.phase - engine.phaseT0 > LongestDwell)
         => engine'.phase # engine.phase]_vars

\* regime, ceiling and stress source as a setRegime call leaves them
RegimeTriple(e) ==
    [regime |-> e.snapshot.regime,
     exposureCeilingGross |-> e.snapshot.exposureCeilingGross,
     stressSource |-> e.snapshot.stressSource]

\* the regime, ceiling and stress source that the setRegime call of the
\* handler of e.phase writes, e being the engine as playback leaves it (drift
\* writes pillar scores only). In CIRCUIT_BREAK the call comes after the
\* module aggregator and the five setSignals and takes Math.min of the ceiling
\* they left; in the other phases it is the handler's first call.
HandlerRegime(e, c) ==
    RegimeTriple(
        CASE e.phase = "CALM" -> setRegime(e, "RISK_ON", SPEC_CEILINGS("RISK_ON"), "GENERAL")
          [] e.phase = "BUILD_STRESS" ->
                setRegime(e, "NEUTRAL", SPEC_CEILINGS("NEUTRAL"), "CORRELATED")
          [] e.phase = "CIRCUIT_BREAK" ->
                CircuitBreakRegime(
                    SetPhaseSignals(
                        updateARASModules(e, ModulePatch("CIRCUIT_BREAK")),
                        "CIRCUIT_BREAK", 1))
          [] e.phase = "DELEVERAGE" -> DeleverageRegime(e)
          [] e.phase = "STABILIZE" -> StabilizeRegime(e)
          [] e.phase = "ARES_GATES" -> AresGatesRegime(e)
          [] e.phase = "REENTRY" -> ReentryRegime(e, c.reentry))

\* C28: the crash override only tightens the phase's intended regime and
\* ceiling: at the end of every tick the exposure ceiling is at most the
\* ceiling the phase handler assigned in that tick, and the regime is the one
\* the handler assigned or CRASH; it is CRASH instead of the assigned regime
\* only with three or more stress flags and a ceiling of at most 0.15.
C28_CrashOverrideOnlyTightens ==
    [][(last' = "Tick" /\ PhaseOfTick(engine, clk') \in PhaseSet)
         => /\ engine'.snapshot.exposureCeilingGross
                  <= HandlerRegime(ScenarioPlayback(engine, clk'), clk').exposureCeilingGross
            /\ engine'.snapshot.regime
                  \in {HandlerRegime(ScenarioPlayback(engine, clk'), clk').regime, "CRASH"}
            /\ engine'.snapshot.regime
                  # HandlerRegime(ScenarioPlayback(engine, clk'), clk').regime
                 => /\ StressCount(engine'.snapshot.arasModules) >= CrashFlagCount
                    /\ engine'.snapshot.exposureCeilingGross <= CrashCeiling]_vars

\* C28 witness: a free-running DELEVERAGE tick, whose handler assigns
\* DEFENSIVE at 0.35, ended in CRASH at 0.15
C28_Witness ==
    /\ last = "Tick"
    /\ FreeRunning(engine)
    /\ engine.phase = "DELEVERAGE"
    /\ HandlerRan(engine, "DELEVERAGE")
    /\ engine.snapshot.regime = "CRASH"
    /\ engine.snapshot.exposureCeilingGross = CrashCeiling
    /\ StressCount(engine.snapshot.arasModules) = 5

\* the modules carry the risk score, stress flag and confidence of patch
ModulesMatch(modules, patch) ==
    /\ Len(modules) = Len(patch)
    /\ \A i \in 1..Len(patch) :
          /\ modules[i].risk_score = patch[i].risk_score
          /\ modules[i].stress_flag = patch[i].stress_flag
          /\ modules[i].confidence = patch[i].confidence

\* C29: every phase rewrites the module patch on every tick: at the end of a
\* tick in any of the seven phases, however the phase was entered, the six
\* modules carry the table values of the phase whose handler ran (for the six
\* phases that have a table) and the snapshot's stress source is the
\* classification of the modules in the snapshot.
C29_ModulesRewrittenEveryTick ==
    [][(last' = "Tick" /\ PhaseOfTick(engine, clk') \in PhaseSet)
         => /\ PhaseOfTick(engine, clk') \in AggregatorPhases
                 => ModulesMatch(engine'.snapshot.arasModules,
                                 ModulePatch(PhaseOfTick(engine, clk')))
            /\ engine'.snapshot.stressSource = StressSourceOf(engine'.snapshot.arasModules)]_vars

\* an alert appended since alert number seq announces stress source src
StressSourceAnnounced(e, seq, src) ==
    \E i \in DOMAIN e.snapshot.alerts :
        /\ e.snapshot.alerts[i].seq > seq
        /\ e.snapshot.alerts[i].severity = "watch"
        /\ e.snapshot.alerts[i].title = <<"ARAS", "stressSource", src>>

\* C30: whenever the stress source in the snapshot at the end of a tick
\* differs from the stress source at the end of the previous tick, that tick
\* appended a watch alert announcing the new stress source.
C30_StressSourceChangeAlerted ==
    [][(last' = "Tick" /\ TickNo >= 1
          /\ engine'.snapshot.stressSource # engine.snapshot.stressSource)
         => StressSourceAnnounced(engine', engine.alertSeq, engine'.snapshot.stressSource)]_vars

\* the levels of a stored signal list
LevelsOf(signals) == [i \in DOMAIN signals |-> signals[i].level]

\* the two engines agree on everything whose change an alert records: phase,
\* regime, ceiling, stress source, module stress flags, gates, signal levels
SameTracked(a, b) ==
    /\ a.phase = b.phase
    /\ a.snapshot.scenarioStep = b.snapshot.scenarioStep
    /\ a.snapshot.regime = b.snapshot.regime
    /\ a.snapshot.exposureCeilingGross = b.snapshot.exposureCeilingGross
    /\ a.snapshot.stressSource = b.snapshot.stressSource
    /\ \A i \in DOMAIN a.snapshot.arasModules :
          a.snapshot.arasModules[i].stress_flag = b.snapshot.arasModules[i].stress_flag
    /\ a.snapshot.aresGates = b.snapshot.aresGates
    /\ \A k \in DOMAIN SignalKeys :
          LevelsOf(a.snapshot[SignalKeys[k]]) = LevelsOf(b.snapshot[SignalKeys[k]])

\* C31: alerts record transitions only: in scripted mode a tick that ends
\* with the same phase, regime, ceiling, stress source, module stress flags,
\* gate status and signal levels as the previous tick appends no alert; the
\* critical crash-override alert is not appended again on every tick of a
\* phase whose patch keeps three or more stress flags set.
C31_AlertsRecordTransitionsOnly ==
    [][(/\ last = "Tick"
        /\ last' = "Tick"
        /\ Truthy(engine.scenarioId)
        /\ SameTracked(engine, engine'))
       => engine'.alertSeq = engine.alertSeq]_vars

-----------------------------------------------------------------------------
(* Properties of the portfolio allocator *)

Portfolio(e) == e.snapshot.portfolio

\* the positions of one sleeve
PositionsOf(pf, sleeve) == {i \in DOMAIN pf.positions : pf.positions[i].sleeve = sleeve}

\* C32: in every portfolio snapshot that carries a re-entry state, each
\* instrument tagged with tranche k has current weight 0 unless PM approval is
\* granted and the reported tranche is at least k; the untagged instruments
\* (defense, cash+options) keep the weight the sleeve computation gives them.
C32_TrancheGating ==
    (Portfolio(engine).present /\ Reentry(engine).present)
      => \A i \in DOMAIN Portfolio(engine).positions :
            /\ (/\ Portfolio(engine).positions[i].tranche > 0
                /\ ~(Reentry(engine).pmApproved
                       /\ Reentry(engine).tranche >= Portfolio(engine).positions[i].tranche))
                 => Portfolio(engine).positions[i].currentPct = 0
            /\ Portfolio(engine).positions[i].sleeve = "DEFENSE"
                 => /\ Portfolio(engine).positions[i].tranche = 0
                    /\ Portfolio(engine).positions[i].currentPct
                          = Portfolio(engine).positions[i].targetPct
                    /\ Portfolio(engine).positions[i].currentPct > 0
            /\ Portfolio(engine).positions[i].sleeve = "CASH_OPTIONS"
                 => /\ Portfolio(engine).positions[i].tranche = 0
                    /\ Portfolio(engine).positions[i].currentPct
                          = Portfolio(engine).sleeves.cashOptions

\* C32 witness: an approved re-entry at tranche 2 holds the tranche 1 and 2
\* instruments and has zeroed the tranche 3 ones
C32_Witness ==
    /\ last = "Tick"
    /\ Portfolio(engine).present
    /\ Reentry(engine).present
    /\ Reentry(engine).pmApproved
    /\ Reentry(engine).tranche = 2
    /\ \E i, j, k \in DOMAIN Portfolio(engine).positions :
          /\ Portfolio(engine).positions[i].ticker = "MRVL"
          /\ Portfolio(engine).positions[i].currentPct = 0
          /\ Portfolio(engine).positions[j].ticker = "AMD"
          /\ Portfolio(engine).positions[j].currentPct > 0
          /\ Portfolio(engine).positions[k].ticker = "IBIT"
          /\ Portfolio(engine).positions[k].currentPct > 0

\* C33: tranche gating applies only while re-entry is in progress: the
\* portfolio of a tick whose phase is not REENTRY, in any mode, has no
\* instrument zeroed by gating, so every equity and crypto instrument has a
\* positive current weight.
C33_GatingOnlyInReentry ==
    [][(last' = "Tick" /\ PhaseOfTick(engine, clk') \in PhaseSet \ {"REENTRY"})
         => \A i \in DOMAIN Portfolio(engine').positions :
               Portfolio(engine').positions[i].sleeve \in {"EQUITY", "CRYPTO"}
                 => Portfolio(engine').positions[i].currentPct > 0]_vars

\* the gate lets position p through
NotGated(pf, p) ==
    p.tranche = 0 \/ ~pf.reentry.present \/ (pf.reentry.pmApproved /\ pf.reentry.tranche >= p.tranche)

\* the cut, in thousandths, the stress-source table holds for a sleeve
CutOf(stressSource, sleeve) ==
    IF sleeve = "CRYPTO" THEN SPEC_SOURCE_TARGETED_CUTS(stressSource).cryptoCut
    ELSE SPEC_SOURCE_TARGETED_CUTS(stressSource).equityCut

\* the fixed target, in thousandths, of a defense instrument
DefenseTarget(ticker) ==
    CASE ticker = "TLT" -> 70
      [] ticker = "SGOL" -> 40
      [] ticker = "DBMF" -> 30

\* the portfolio buildPortfolioSnapshot returned
Built == fout[1]

\* C34: for every regime, stress source and re-entry state, an equity or
\* crypto instrument not zeroed by gating has current weight = target weight
\* x (1 - cut), the cut taken from the stress-source table, when the regime is
\* DEFENSIVE or CRASH, and current weight = target weight in RISK_ON and
\* NEUTRAL; every defense instrument's current weight is its fixed target.
C34_CutsOnlyUnderStress ==
    last = "buildPortfolioSnapshot"
      => \A i \in DOMAIN Built.positions :
            /\ (/\ Built.positions[i].sleeve \in {"EQUITY", "CRYPTO"}
                /\ NotGated(Built, Built.positions[i]))
                 => IF fin.regime \in {"DEFENSIVE", "CRASH"}
                    THEN Built.positions[i].currentPct * 1000
                           = Built.positions[i].targetPct
                               * (1000 - CutOf(fin.stressSource, Built.positions[i].sleeve))
                    ELSE Built.positions[i].currentPct = Built.positions[i].targetPct
            /\ Built.positions[i].sleeve = "DEFENSE"
                 => Built.positions[i].currentPct
                       = Weight(DefenseTarget(Built.positions[i].ticker))

\* C34 witness: a CRASH portfolio under EQUITY stress, approved at tranche 2,
\* holds TSLA at 20% and IBIT at 70% of their targets, MRVL gated to zero and
\* TLT at its 7%
C34_Witness ==
    /\ last = "buildPortfolioSnapshot"
    /\ fin.regime = "CRASH"
    /\ fin.stressSource = "EQUITY"
    /\ fin.reentry.present /\ fin.reentry.pmApproved /\ fin.reentry.tranche = 2
    /\ \E i, j, k, l \in DOMAIN Built.positions :
          /\ Built.positions[i].ticker = "TSLA"
          /\ Built.positions[i].currentPct > 0
          /\ Built.positions[i].currentPct * 10 = Built.positions[i].targetPct * 2
          /\ Built.positions[j].ticker = "IBIT"
          /\ Built.positions[j].currentPct * 10 = Built.positions[j].targetPct * 7
          /\ Built.positions[k].ticker = "MRVL"
          /\ Built.positions[k].currentPct = 0
          /\ Built.positions[l].ticker = "TLT"
          /\ Built.positions[l].currentPct = Weight(70)

\* C35: in every portfolio snapshot the four current sleeve weights (equity,
\* crypto, defense, cash+options) are non-negative and sum to 1, the
\* cash+options sleeve being the residual after equity + crypto + defense.
C35_SleevesSumToOne ==
    Portfolio(engine).present
      => /\ Portfolio(engine).sleeves.equity >= 0
         /\ Portfolio(engine).sleeves.crypto >= 0
         /\ Portfolio(engine).sleeves.defense >= 0
         /\ Portfolio(engine).sleeves.cashOptions >= 0
         /\ Portfolio(engine).sleeves.equity + Portfolio(engine).sleeves.crypto
              + Portfolio(engine).sleeves.defense + Portfolio(engine).sleeves.cashOptions
              = Weight(1000)

\* C36: at the end of every tick the regime is published with its matching
\* ceiling: the exposure ceiling does not exceed the nominal ceiling of the
\* current regime (RISK_ON 1.10, NEUTRAL 0.70, DEFENSIVE 0.40, CRASH 0.15), in
\* every phase, mode and tranche.
C36_CeilingWithinRegime ==
    last = "Tick"
      => engine.snapshot.exposureCeilingGross <= SPEC_CEILINGS(engine.snapshot.regime)

\* the sum of the current weights of the positions of the given sleeves
RECURSIVE SumCurrent(_, _)
SumCurrent(positions, sleeves) ==
    IF positions = <<>> THEN 0
    ELSE (IF Head(positions).sleeve \in sleeves THEN Head(positions).currentPct ELSE 0)
            + SumCurrent(Tail(positions), sleeves)

\* C37: the portfolio is allocated under the ceiling in effect: in every
\* snapshot produced by a tick, portfolio.eqCryptoCeiling is at most the
\* snapshot's exposure ceiling, so the equity and crypto current weights sum
\* to no more than the exposure ceiling shown for the same tick.
C37_PortfolioUnderCeiling ==
    last = "Tick"
      => /\ Portfolio(engine).eqCryptoCeiling <= engine.snapshot.exposureCeilingGross
         /\ SumCurrent(Portfolio(engine).positions, {"EQUITY", "CRYPTO"})
               <= Weight(engine.snapshot.exposureCeilingGross)

\* C38: re-entry is authorized only after all three gates have reached PASS:
\* no snapshot reports PM approval granted or a tranche of 1 or more while a
\* gate is still WAIT.
C38_ApprovalOnlyAfterGates ==
    (/\ Portfolio(engine).present
     /\ Reentry(engine).present
     /\ Reentry(engine).pmApproved \/ Reentry(engine).tranche >= 1)
      => PassCount(engine.snapshot.aresGates) = 3

Gates(e) == e.snapshot.aresGates

\* C39: in every reachable snapshot the three gates are ordered: confirmation
\* (gate 3) is PASS only if conviction (gate 2) is PASS, and conviction is
\* PASS only if stress normalization (gate 1) is PASS; no gate ever takes the
\* value FAIL, under any sequence of ticks, setPhase and setScenario calls.
C39_GatesOrdered ==
    /\ Gates(engine).gate3_confirmation = "PASS" => Gates(engine).gate2_conviction = "PASS"
    /\ Gates(engine).gate2_conviction = "PASS" => Gates(engine).gate1_stress_normalization = "PASS"
    /\ \A k \in DOMAIN Gates(engine) : Gates(engine)[k] \in {"WAIT", "PASS"}

\* C39 witness: an ARES_GATES tick has passed gates 1 and 2 and gate 3 waits
C39_Witness ==
    /\ last = "Tick"
    /\ HandlerRan(engine, "ARES_GATES")
    /\ Gates(engine).gate1_stress_normalization = "PASS"
    /\ Gates(engine).gate2_conviction = "PASS"
    /\ Gates(engine).gate3_confirmation = "WAIT"

\* C40: in every reachable snapshot regime CRASH implies an exposure ceiling
\* of at most 0.15: neither the phase handlers nor the crash override publish
\* CRASH with a higher ceiling, in any phase, mode or order of control
\* operations.
C40_CrashCeiling ==
    engine.snapshot.regime = "CRASH" => engine.snapshot.exposureCeilingGross <= CrashCeiling

\* C40 witness: the S3 DELEVERAGE handler has published CRASH by setRegime
\* and the crash override has confirmed it, at a ceiling of 0.15
C40_Witness ==
    /\ last = "Tick"
    /\ engine.scenarioId = JsStr("S3")
    /\ HandlerRan(engine, "DELEVERAGE")
    /\ engine.snapshot.regime = "CRASH"
    /\ engine.snapshot.exposureCeilingGross = CrashCeiling

====
